---- MODULE Spec2Model ----
(***************************************************************************)
(* Model of the security governance gatekeeper:                            *)
(*   - RedisRateLimiterAdapter (sliding window over a Redis sorted set),   *)
(*   - SecurityGatekeeperMiddleware.dispatch (the governance pipeline),    *)
(*   - the recursive JSON redaction (_redact_json / _merge_pii_info) over  *)
(*     the PresidioAdapter.                                                *)
(* Time is counted in ticks of 1/TicksPerSecond second, so that the        *)
(* float-to-int truncation of the retry delay is not the identity.         *)
(***************************************************************************)
EXTENDS Integers, Sequences, FiniteSets, TLC

\* ------------------------------------------------------------------ bounds
NumCallers == 2
MaxTime == 4
MaxCalls == 4
\* the requests the pipeline receives
MaxRequests == 3
MaxConcurrentCalls == 3
TicksPerSecond == 2
\* the loaded configuration of the rate-limited role (config/roles.yaml)
Limit == 2
WindowSeconds == 1

\* ------------------------------------------------------- program constants
KeyGraceSeconds == 60

\* Optional[T]: None is the empty sequence, a value is a one-element sequence
None == <<>>
Some(x) == <<x>>

Procs == 1..NumCallers
Users == {"u1", "u2"}
Times == 0..MaxTime

\* UserRole
ADMIN == "admin"
JUNIOR_INTERN == "junior_intern"
UserRole == {ADMIN, JUNIOR_INTERN}

\* RateLimitConfig(requests_per_hour, window_seconds)
RateLimitConfig(rph, ws) == [requests_per_hour |-> rph, window_seconds |-> ws]

\* RolePolicy(role, pii_redaction_enabled, rate_limit)
RolePolicy(role, pii, rl) ==
    [role |-> role, pii_redaction_enabled |-> pii, rate_limit |-> rl]

\* RolePolicy.has_rate_limit
has_rate_limit(policy) == policy.rate_limit # None

\* The registry as loaded at startup: the privileged role sees raw data and is
\* unlimited, the restricted role is redacted and rate limited.
LoadedPolicies ==
    [r \in UserRole |->
        IF r = ADMIN
        THEN RolePolicy(ADMIN, FALSE, None)
        ELSE RolePolicy(JUNIOR_INTERN, TRUE,
                        Some(RateLimitConfig(Limit, WindowSeconds)))]

NullPolicy == RolePolicy("-", FALSE, None)

\* RateLimitResult
RateLimitResult(allowed, remaining, limit, reset_at, retry) ==
    [allowed |-> allowed, remaining |-> remaining, limit |-> limit,
     reset_at |-> reset_at, retry_after_seconds |-> retry]

NullResult == RateLimitResult(FALSE, 0, 0, 0, None)

\* int(x) of a quotient a/b, b > 0: truncation toward zero
IntTrunc(a, b) == IF a >= 0 THEN a \div b ELSE -((-a) \div b)

Max(a, b) == IF a >= b THEN a ELSE b
MinOf(S) == CHOOSE x \in S : \A y \in S : x <= y

VARIABLES
    now,      \* the wall clock / Redis server clock, in ticks
    store,    \* store[u]: the scores of the members of the sorted set ratelimit:<u>
    ttl,      \* ttl[u]: Optional deadline (ticks) at which Redis deletes the key
    calls,    \* calls[p]: the rate limiter call process p is executing
    ncalls,   \* number of operations started so far (bounds the run)
    admits,   \* history: admits[u][t] = number of calls of u admitted with now_ts = t
    slid,     \* history: slid[u] = Some(t) once a call at t found the earliest of
              \* Limit entries expired and the others still inside the window
    registry, \* RolePolicyRegistry._policies: role -> RolePolicy
    loader,   \* the reloads of the registry: how many were made, the error the
              \* last one raised, and (history) the last completely loaded registry
    reqs,     \* reqs[p]: the request process p is dispatching
    payload,  \* the argument of a _redact_json call: the tree
    lang,     \* the argument of a _redact_json call: the language
    outcome,  \* Optional (redacted_data, pii_info) the call returned
    hashseed  \* the probe sequence of each kind in the sets of this interpreter
              \* (string hashing is randomised when the interpreter starts)

rlvars == <<now, store, ttl, calls, ncalls, admits, slid>>
pipevars == <<registry, loader, reqs>>
redvars == <<payload, lang, outcome, hashseed>>
vars == <<now, store, ttl, calls, ncalls, admits, slid, registry, loader, reqs, payload, lang, outcome,
          hashseed>>

IdleCall ==
    [pc |-> "idle", op |-> "-", user |-> "-", policy |-> NullPolicy,
     now_ts |-> 0, count |-> 0, prior |-> 0, pre |-> "-", result |-> NullResult]

\* window of a limited policy, in ticks
WindowTicks(policy) == policy.rate_limit[1].window_seconds * TicksPerSecond
LimitOf(policy) == policy.rate_limit[1].requests_per_hour

\* variant: the range ends just below window_start, so an entry scored exactly
\* window_start survives the discard
ZRemRangeByScore_KeepsBoundary(S, window_start) == {s \in S : s >= window_start}

\* zremrangebyscore(key, "-inf", window_start): removes scores <= window_start
ZRemRangeByScore(S, window_start) == {s \in S : s > window_start}

\* Redis removes a key whose sorted set became empty, and with it its expiry
TtlAfter(S, t) == IF S = {} THEN None ELSE t

\* history: admissions of u whose timestamp lies strictly inside (t - w, t]
AdmittedInWindow(u, t, w) ==
    LET F[n \in -1..MaxTime] ==
            IF n < 0 THEN 0
            ELSE F[n - 1] + (IF n > t - w /\ n <= t THEN admits[u][n] ELSE 0)
    IN F[MaxTime]

\* history: S holds L entries, the earliest has left the window of a call at
\* t and every other entry is still inside it
SlidePre(S, t, w, L) ==
    /\ Cardinality(S) = L
    /\ \E e1 \in S : e1 <= t - w /\ \A s \in S \ {e1} : s > t - w

RLInit ==
    /\ now = 0
    /\ store = [u \in Users |-> {}]
    /\ ttl = [u \in Users |-> None]
    /\ calls = [p \in Procs |-> IdleCall]
    /\ ncalls = 0
    /\ admits = [u \in Users |-> [t \in Times |-> 0]]
    /\ slid = [u \in Users |-> None]

\* ------------------------------------------------------------ the clock
\* Time passes; a key whose expiry deadline is reached is deleted by Redis.
Tick ==
    /\ now < MaxTime
    /\ now' = now + 1
    /\ store' = [u \in Users |->
                    IF ttl[u] # None /\ ttl[u][1] <= now + 1 THEN {} ELSE store[u]]
    /\ ttl' = [u \in Users |->
                    IF ttl[u] # None /\ ttl[u][1] <= now + 1 THEN None ELSE ttl[u]]
    /\ UNCHANGED <<calls, ncalls, admits, slid, pipevars, redvars>>

\* ------------------------------------------- check_and_record(user_id, policy)
\* lines 63-78: the unlimited early return, else now_ts and the window
\* variant: the unlimited result reports an exhausted quota instead of the
\* sentinel -1
UnlimitedResult_ZeroRemaining == RateLimitResult(TRUE, 0, -1, now, None)

UnlimitedResult == RateLimitResult(TRUE, -1, -1, now, None)

CheckBegin(p, u, policy) ==
    [IdleCall EXCEPT
        !.op = "check", !.user = u, !.policy = policy,
        !.pc = IF ~has_rate_limit(policy) \/ policy.rate_limit = None
               THEN "returned" ELSE "pipe",
        !.now_ts = IF has_rate_limit(policy) THEN now ELSE 0,
        !.result = IF ~has_rate_limit(policy) \/ policy.rate_limit = None
                   THEN UnlimitedResult ELSE NullResult]

CheckAndRecord(p, u, policy) ==
    /\ calls[p].pc = "idle"
    /\ ncalls < MaxCalls
    /\ calls' = [calls EXCEPT ![p] = CheckBegin(p, u, policy)]
    /\ ncalls' = ncalls + 1
    /\ UNCHANGED <<now, store, ttl, admits, slid, pipevars, redvars>>

\* lines 80-94: pipe.execute() runs ZREMRANGEBYSCORE and ZCARD as one
\* transaction, then the limit test selects the branch
UnderLimit(current_count, limit) == current_count < limit

PipeExecute(p) ==
    LET c == calls[p]
        u == c.user
        window_start == c.now_ts - WindowTicks(c.policy)
        kept == ZRemRangeByScore(store[u], window_start)
        current_count == Cardinality(kept)
        ok == UnderLimit(current_count, LimitOf(c.policy))
    IN  /\ c.pc = "pipe"
        /\ c.op = "check"
        /\ store' = [store EXCEPT ![u] = kept]
        /\ ttl' = [ttl EXCEPT ![u] = TtlAfter(kept, ttl[u])]
        /\ calls' = [calls EXCEPT ![p] =
                        [c EXCEPT !.count = current_count,
                                  !.prior = AdmittedInWindow(u, c.now_ts, WindowTicks(c.policy)),
                                  !.pre = IF slid[u] = Some(c.now_ts) THEN "after"
                                          ELSE IF SlidePre(store[u], c.now_ts,
                                                           WindowTicks(c.policy),
                                                           LimitOf(c.policy))
                                          THEN "slide" ELSE "-",
                                  !.pc = IF ok THEN "zadd" ELSE "zrange"]]
        /\ admits' = IF ok
                     THEN [admits EXCEPT ![u][c.now_ts] = @ + 1]
                     ELSE admits
        /\ slid' = IF SlidePre(store[u], c.now_ts, WindowTicks(c.policy), LimitOf(c.policy))
                       /\ slid[u] # Some(c.now_ts)
                   THEN [slid EXCEPT ![u] = Some(c.now_ts)]
                   ELSE slid
        /\ UNCHANGED <<now, ncalls, pipevars, redvars>>

\* line 96: zadd(key, {f"{now_ts}:{user_id}": now_ts}); the member is a function
\* of the timestamp and the user alone, so a second insert with the same
\* timestamp rewrites the existing member
ZAddMember(S, now_ts) == S \cup {now_ts}

\* variant: one key for all subjects, the entry is inserted for every subject
ZAdd_SharedKey(p) ==
    LET c == calls[p]
    IN  /\ c.pc = "zadd"
        /\ store' = [u \in Users |-> ZAddMember(store[u], c.now_ts)]
        /\ calls' = [calls EXCEPT ![p].pc = "expire"]
        /\ UNCHANGED <<now, ttl, ncalls, admits, slid, pipevars, redvars>>

ZAdd(p) ==
    LET c == calls[p]
        u == c.user
    IN  /\ c.pc = "zadd"
        /\ store' = [store EXCEPT ![u] = ZAddMember(store[u], c.now_ts)]
        /\ calls' = [calls EXCEPT ![p].pc = "expire"]
        /\ UNCHANGED <<now, ttl, ncalls, admits, slid, pipevars, redvars>>

\* lines 99-106: expire(key, window_seconds + 60) and the admitted result
\* variant: the admitted result reports the quota before the slot just taken
AllowedResult_BeforeTaking(c) ==
    RateLimitResult(TRUE, LimitOf(c.policy) - c.count, LimitOf(c.policy),
                    c.now_ts + WindowTicks(c.policy), None)

AllowedResult(c) ==
    RateLimitResult(TRUE, LimitOf(c.policy) - c.count - 1, LimitOf(c.policy),
                    c.now_ts + WindowTicks(c.policy), None)

\* variant: the key expires with the window, without the grace period
Expire_WindowOnly(p) ==
    LET c == calls[p]
        u == c.user
        seconds == c.policy.rate_limit[1].window_seconds
    IN  /\ c.pc = "expire"
        /\ ttl' = [ttl EXCEPT ![u] =
                      IF store[u] = {} THEN None
                      ELSE Some(now + seconds * TicksPerSecond)]
        /\ calls' = [calls EXCEPT ![p] =
                        [c EXCEPT !.pc = "returned", !.result = AllowedResult(c)]]
        /\ UNCHANGED <<now, store, ncalls, admits, slid, pipevars, redvars>>

Expire(p) ==
    LET c == calls[p]
        u == c.user
        seconds == c.policy.rate_limit[1].window_seconds + KeyGraceSeconds
    IN  /\ c.pc = "expire"
        /\ ttl' = [ttl EXCEPT ![u] =
                      IF store[u] = {} THEN None
                      ELSE Some(now + seconds * TicksPerSecond)]
        /\ calls' = [calls EXCEPT ![p] =
                        [c EXCEPT !.pc = "returned", !.result = AllowedResult(c)]]
        /\ UNCHANGED <<now, store, ncalls, admits, slid, pipevars, redvars>>

\* lines 108-123: zrange(key, 0, 0, withscores=True) and the rejected result
RetryAfter(S, c) ==
    IF S # {}
    THEN IntTrunc(MinOf(S) + WindowTicks(c.policy) - c.now_ts, TicksPerSecond) + 1
    ELSE c.policy.rate_limit[1].window_seconds

RejectedResult(S, c) ==
    RateLimitResult(FALSE, 0, LimitOf(c.policy),
                    c.now_ts + RetryAfter(S, c) * TicksPerSecond,
                    Some(Max(1, RetryAfter(S, c))))

\* variant: the rejected branch re-arms the expiry of the key
ZRange_RefreshesExpiry(p) ==
    LET c == calls[p]
    IN  /\ c.pc = "zrange"
        /\ calls' = [calls EXCEPT ![p] =
                        [c EXCEPT !.pc = "returned",
                                  !.result = RejectedResult(store[c.user], c)]]
        /\ ttl' = [ttl EXCEPT ![c.user] =
                      Some(now + (c.policy.rate_limit[1].window_seconds + KeyGraceSeconds)
                                 * TicksPerSecond)]
        /\ UNCHANGED <<now, store, ncalls, admits, slid, pipevars, redvars>>

ZRange(p) ==
    LET c == calls[p]
    IN  /\ c.pc = "zrange"
        /\ calls' = [calls EXCEPT ![p] =
                        [c EXCEPT !.pc = "returned",
                                  !.result = RejectedResult(store[c.user], c)]]
        /\ UNCHANGED <<now, store, ttl, ncalls, admits, slid, pipevars, redvars>>

\* --------------------------------------------- get_remaining(user_id, policy)
\* lines 133-147
GetRemaining(p, u, policy) ==
    /\ calls[p].pc = "idle"
    /\ ncalls < MaxCalls
    /\ calls' = [calls EXCEPT ![p] =
                    [CheckBegin(p, u, policy) EXCEPT
                        !.op = "peek",
                        !.pc = IF has_rate_limit(policy) THEN "peek_rem" ELSE "returned"]]
    /\ ncalls' = ncalls + 1
    /\ UNCHANGED <<now, store, ttl, admits, slid, pipevars, redvars>>

\* line 150: await client.zremrangebyscore(key, "-inf", window_start)
PeekRemove(p) ==
    LET c == calls[p]
        u == c.user
        kept == ZRemRangeByScore(store[u], c.now_ts - WindowTicks(c.policy))
    IN  /\ c.pc = "peek_rem"
        /\ store' = [store EXCEPT ![u] = kept]
        /\ ttl' = [ttl EXCEPT ![u] = TtlAfter(kept, ttl[u])]
        /\ calls' = [calls EXCEPT ![p].pc = "peek_card"]
        /\ UNCHANGED <<now, ncalls, admits, slid, pipevars, redvars>>

\* lines 151-161: await client.zcard(key) and the result
PeekResult(c, current_count) ==
    LET remaining == Max(0, LimitOf(c.policy) - current_count)
    IN  RateLimitResult(remaining > 0, remaining, LimitOf(c.policy),
                        c.now_ts + WindowTicks(c.policy),
                        Some(IF remaining > 0 THEN 0
                             ELSE c.policy.rate_limit[1].window_seconds))

\* variant: the peek records the instant of the call like check_and_record
PeekCard_RecordsCall(p) ==
    LET c == calls[p]
    IN  /\ c.pc = "peek_card"
        /\ store' = [store EXCEPT ![c.user] = ZAddMember(store[c.user], c.now_ts)]
        /\ calls' = [calls EXCEPT ![p] =
                        [c EXCEPT !.pc = "returned",
                                  !.count = Cardinality(store[c.user]),
                                  !.result = PeekResult(c, Cardinality(store[c.user]))]]
        /\ UNCHANGED <<now, ttl, ncalls, admits, slid, pipevars, redvars>>

PeekCard(p) ==
    LET c == calls[p]
    IN  /\ c.pc = "peek_card"
        /\ calls' = [calls EXCEPT ![p] =
                        [c EXCEPT !.pc = "returned",
                                  !.count = Cardinality(store[c.user]),
                                  !.result = PeekResult(c, Cardinality(store[c.user]))]]
        /\ UNCHANGED <<now, store, ttl, ncalls, admits, slid, pipevars, redvars>>

\* ------------------------------------------------------------ reset(user_id)
\* lines 163-167: client.delete(key); the history of the subject restarts
\* variant: reset deletes the keys of all subjects
Reset_AllSubjects(p, u) ==
    /\ calls[p].pc = "idle"
    /\ ncalls < MaxCalls
    /\ store' = [v \in Users |-> {}]
    /\ ttl' = [v \in Users |-> None]
    /\ admits' = [v \in Users |-> [t \in Times |-> 0]]
    /\ slid' = [v \in Users |-> None]
    /\ calls' = [calls EXCEPT ![p] =
                    [IdleCall EXCEPT !.op = "reset", !.user = u, !.pc = "returned"]]
    /\ ncalls' = ncalls + 1
    /\ UNCHANGED <<now, pipevars, redvars>>

Reset(p, u) ==
    /\ calls[p].pc = "idle"
    /\ ncalls < MaxCalls
    /\ store' = [store EXCEPT ![u] = {}]
    /\ ttl' = [ttl EXCEPT ![u] = None]
    /\ admits' = [admits EXCEPT ![u] = [t \in Times |-> 0]]
    /\ slid' = [slid EXCEPT ![u] = None]
    /\ calls' = [calls EXCEPT ![p] =
                    [IdleCall EXCEPT !.op = "reset", !.user = u, !.pc = "returned"]]
    /\ ncalls' = ncalls + 1
    /\ UNCHANGED <<now, pipevars, redvars>>

\* the caller takes the result
Return(p) ==
    /\ calls[p].pc = "returned"
    /\ calls' = [calls EXCEPT ![p] = IdleCall]
    /\ UNCHANGED <<now, store, ttl, ncalls, admits, slid, pipevars, redvars>>


\* ====================================================================
\* PII detection and redaction (PresidioAdapter)
\* ====================================================================
\* A text is a sequence of tokens; the external analyzer recognises a token
\* by what it is.  Positions (start, end) are token offsets: [i-1, i).
EMAIL_ADDRESS == "EMAIL_ADDRESS"
PHONE_NUMBER == "PHONE_NUMBER"
PERSON == "PERSON"
LOCATION == "LOCATION"
IT_FISCAL_CODE == "IT_FISCAL_CODE"

\* PresidioAdapter.ENTITY_TYPE_MAPPING (its keys, in order)
ENTITY_TYPE_MAPPING ==
    <<EMAIL_ADDRESS, PHONE_NUMBER, PERSON, LOCATION, IT_FISCAL_CODE>>

\* PresidioAdapter.REDACTION_LABELS
REDACTION_LABELS(t) ==
    CASE t = EMAIL_ADDRESS -> "[REDACTED_EMAIL]"
      [] t = PHONE_NUMBER -> "[REDACTED_PHONE]"
      [] t = PERSON -> "[REDACTED_NAME]"
      [] t = LOCATION -> "[REDACTED_LOCATION]"
      [] t = IT_FISCAL_CODE -> "[REDACTED_CODICE_FISCALE]"
      [] OTHER -> "[REDACTED]"

\* SupportedLanguage
ENGLISH == "en"
ITALIAN == "it"
SupportedLanguage == {ENGLISH, ITALIAN}

\* the tokens of the texts the program is given
RawEmail == "a@b.com"
RawPerson == "Mario Rossi"
RawFiscal == "RSSMRA80A01H501U"
Plain == "contact"
RawSpans == {RawEmail, RawPerson, RawFiscal}
PlainTokens == {Plain, "it", "en"}

\* what the external recognisers report for a token of a text the program is
\* given. The recognisers are those of the Presidio engines, configured
\* outside the sources: what they report for a replacement label that the
\* anonymizer wrote is left undefined, so that nothing here decides whether a
\* redacted text is detected again.
Recognise(token) ==
    CASE token = RawEmail -> EMAIL_ADDRESS
      [] token = RawPerson -> PERSON
      [] token = RawFiscal -> IT_FISCAL_CODE
      [] token \in PlainTokens -> "NONE"

SeqRange(s) == {s[i] : i \in 1..Len(s)}

\* lines 83-86 / 154-157: the entity types searched for a language
StartsWithIT(e) == e = IT_FISCAL_CODE
EntitiesToSearch(lang_code) ==
    IF lang_code # "it"
    THEN SelectSeq(ENTITY_TYPE_MAPPING, LAMBDA e : ~StartsWithIT(e))
    ELSE ENTITY_TYPE_MAPPING

\* AnalyzerEngine.analyze(text, language, entities): one result per recognised
\* token whose type is searched, in text order
Analyze(text, lang_code, entities) ==
    LET F[i \in 0..Len(text)] ==
            IF i = 0 THEN <<>>
            ELSE IF Recognise(text[i]) \in SeqRange(entities)
                 THEN Append(F[i - 1],
                             [entity_type |-> Recognise(text[i]),
                              start |-> i - 1, end |-> i])
                 ELSE F[i - 1]
    IN F[Len(text)]

\* PIIEntity(entity_type, start, end, text)
PIIEntity(r, text) ==
    [entity_type |-> r.entity_type, start |-> r.start, end |-> r.end,
     text |-> SubSeq(text, r.start + 1, r.end)]

\* PresidioAdapter.detect
Detect(text, language) ==
    IF text = <<>> THEN <<>>
    ELSE LET results == Analyze(text, language, EntitiesToSearch(language))
             mapped == SelectSeq(results,
                          LAMBDA r : r.entity_type \in SeqRange(ENTITY_TYPE_MAPPING))
         IN [i \in 1..Len(mapped) |-> PIIEntity(mapped[i], text)]

\* AnonymizerEngine.anonymize(text, analyzer_results, operators): a span whose
\* type has an operator is replaced by the operator's new_value, any other
\* span by the engine's default "<TYPE>"
DefaultReplacement(t) ==
    CASE t = EMAIL_ADDRESS -> "<EMAIL_ADDRESS>"
      [] t = PHONE_NUMBER -> "<PHONE_NUMBER>"
      [] t = PERSON -> "<PERSON>"
      [] t = LOCATION -> "<LOCATION>"
      [] t = IT_FISCAL_CODE -> "<IT_FISCAL_CODE>"
      [] OTHER -> "<>"

Anonymize(text, analyzer_results, operators) ==
    [i \in 1..Len(text) |->
        IF \E k \in 1..Len(analyzer_results) : analyzer_results[k].end = i
        THEN LET r == analyzer_results[
                        CHOOSE k \in 1..Len(analyzer_results) :
                            analyzer_results[k].end = i]
             IN IF r.entity_type \in operators
                THEN REDACTION_LABELS(r.entity_type)
                ELSE DefaultReplacement(r.entity_type)
        ELSE text[i]]

\* RedactionResult(original_length, redacted_text, entities_found, entities_redacted)
RedactionResult(n, redacted, found, k) ==
    [original_length |-> n, redacted_text |-> redacted,
     entities_found |-> found, entities_redacted |-> k]

\* PresidioAdapter.redact(text, language, entities_to_redact); entities_to_redact
\* is None or a list of kinds
Redact(text, language, entities_to_redact) ==
    IF text = <<>> THEN RedactionResult(0, <<>>, <<>>, 0)
    ELSE
      LET detected == Detect(text, language)
          entities ==
              IF entities_to_redact # None /\ entities_to_redact[1] # <<>>
              THEN SelectSeq(detected,
                       LAMBDA e : e.entity_type \in SeqRange(entities_to_redact[1]))
              ELSE detected
          operators == {entities[i].entity_type : i \in 1..Len(entities)}
          analyzer_results == Analyze(text, language, EntitiesToSearch(language))
      IN IF entities = <<>>
         THEN RedactionResult(Len(text), text, <<>>, 0)
         ELSE RedactionResult(Len(text),
                              Anonymize(text, analyzer_results, operators),
                              entities, Len(entities))

\* ====================================================================
\* JSON payload trees
\* ====================================================================
\* json.loads yields str | dict | list | int/float | bool | None; a node is a
\* record whose single field names its type.
JStr(s) == [str |-> s]
JNum(n) == [num |-> n]
JBool(b) == [bool |-> b]
JNull == [null |-> TRUE]
JList(items) == [list |-> items]
\* a dict is its items in insertion order: <<[k |-> key, v |-> node], ...>>
JDict(items) == [dict |-> items]
Item(k, v) == [k |-> k, v |-> v]

IsStr(d) == DOMAIN d = {"str"}
IsDict(d) == DOMAIN d = {"dict"}
IsList(d) == DOMAIN d = {"list"}

\* the kinds the recognisers of the model report
DetectableKinds == {Recognise(token) : token \in RawSpans}

\* set(xs) in CPython: a set of up to four keys is a table of eight slots. A
\* key is put in the first free slot of its probe sequence, which starts at
\* hash & 7 and goes on with i = (i * 5 + 1 + perturb) & 7; the hash of a string
\* changes with the hash seed of the interpreter (PYTHONHASHSEED). An
\* interpreter is described by the slots that the probe sequence of each kind
\* visits, in the order of their first visit.
Slots == 0..7
NoKey == "-"
EmptyTable == [i \in 1..Cardinality(Slots) |-> NoKey]

Interpreter(person, email, fiscal) ==
    [kind \in DetectableKinds |->
        CASE kind = PERSON -> person
          [] kind = EMAIL_ADDRESS -> email
          [] kind = IT_FISCAL_CODE -> fiscal]

\* the probe sequences of "PERSON", "EMAIL_ADDRESS" and "IT_FISCAL_CODE" under
\* CPython 3.11 (64 bit) with PYTHONHASHSEED = 3, 7, 10, 26, 32, 111, 142, 227,
\* 334, 588, 704, 761 and 893. For each text, list and mapping of the payloads
\* and each order of its kinds that an interpreter can give, one of these gives
\* it.
HashSeeds ==
    {Interpreter(<<1, 4, 7>>, <<0, 5, 1>>, <<0, 6, 5>>),
     Interpreter(<<0, 4, 5>>, <<0, 3, 5>>, <<6, 7, 3>>),
     Interpreter(<<4, 7, 2>>, <<5, 0, 7>>, <<3, 0, 1>>),
     Interpreter(<<0, 4, 2>>, <<2, 1, 5>>, <<5, 2, 1>>),
     Interpreter(<<2, 0, 6>>, <<3, 7, 4>>, <<3, 0, 4>>),
     Interpreter(<<1, 5, 2>>, <<3, 6, 1>>, <<1, 2, 0>>),
     Interpreter(<<2, 7, 3>>, <<2, 6, 1>>, <<6, 7, 5>>),
     Interpreter(<<4, 0, 6>>, <<1, 3, 7>>, <<4, 6, 0>>),
     Interpreter(<<3, 0, 1>>, <<3, 1, 5>>, <<0, 7, 1>>),
     Interpreter(<<6, 4, 7>>, <<4, 2, 5>>, <<6, 4, 1>>),
     Interpreter(<<2, 4, 5>>, <<2, 5, 1>>, <<5, 1, 3>>),
     Interpreter(<<7, 3, 0>>, <<7, 0, 4>>, <<7, 6, 1>>),
     Interpreter(<<6, 0, 4>>, <<3, 0, 4>>, <<3, 6, 5>>)}

\* set_add_key: a key already in the table is left where it is
SetAdd(table, key) ==
    IF \E i \in DOMAIN table : table[i] = key THEN table
    ELSE LET probe == hashseed[key]
             k == CHOOSE k \in 1..Len(probe) :
                     /\ table[probe[k] + 1] = NoKey
                     /\ \A j \in 1..(k - 1) : table[probe[j] + 1] # NoKey
         IN [table EXCEPT ![probe[k] + 1] = key]

\* set(xs): the keys are added in the order of xs
SetOf(xs) ==
    LET F[i \in 0..Len(xs)] ==
            IF i = 0 THEN EmptyTable ELSE SetAdd(F[i - 1], xs[i])
    IN F[Len(xs)]

\* list(set(xs)): the distinct elements of xs in the order of their slots. The
\* program does not fix that order: it changes with the hash seed of the
\* interpreter and, when two keys start at the same slot, with the order of xs
ListOfSet(xs) == SelectSeq(SetOf(xs), LAMBDA key : key # NoKey)

EmptyPiiInfo == [detected |-> FALSE, types |-> <<>>, count |-> 0]

\* variant: the parent's count is overwritten by the child's
MergePiiInfo_OverwritesCount(parent, child) ==
    IF child.detected
    THEN [detected |-> TRUE,
          count |-> child.count,
          types |-> ListOfSet(parent.types \o child.types)]
    ELSE parent

\* variant: the parent's kinds are overwritten by the child's
MergePiiInfo_OverwritesTypes(parent, child) ==
    IF child.detected
    THEN [detected |-> TRUE,
          count |-> parent.count + child.count,
          types |-> child.types]
    ELSE parent

\* _merge_pii_info(parent, child): the parent after the call
MergePiiInfo(parent, child) ==
    IF child.detected
    THEN [detected |-> TRUE,
          count |-> parent.count + child.count,
          types |-> ListOfSet(parent.types \o child.types)]
    ELSE parent

\* variant: the kinds of a leaf are listed once per entity found, without
\* passing through a set
RedactLeaf_KindPerEntity(text, language) ==
    LET result == Redact(text, language, None)
    IN [data |-> JStr(result.redacted_text),
        info |-> IF result.entities_found # <<>>
                 THEN [detected |-> TRUE,
                       count |-> Len(result.entities_found),
                       types |-> [i \in 1..Len(result.entities_found) |->
                                     result.entities_found[i].entity_type]]
                 ELSE EmptyPiiInfo]

\* _redact_json, string branch (lines 249-258)
RedactLeaf(text, language) ==
    LET result == Redact(text, language, None)
    IN [data |-> JStr(result.redacted_text),
        info |-> IF result.entities_found # <<>>
                 THEN [detected |-> TRUE,
                       count |-> Len(result.entities_found),
                       types |-> ListOfSet([i \in 1..Len(result.entities_found) |->
                                                 result.entities_found[i].entity_type])]
                 ELSE EmptyPiiInfo]

\* _redact_json(data, language) -> (redacted_data, pii_info)
RECURSIVE RedactJson(_, _)
RECURSIVE RedactChildren(_, _, _, _)
\* variant: each redacted child is put in front of the ones before it
RedactChildren_Prepends(nodes, language, k, acc) ==
    IF k > Len(nodes) THEN acc
    ELSE LET r == RedactJson(nodes[k], language)
         IN RedactChildren(nodes, language, k + 1,
                [data |-> <<r.data>> \o acc.data,
                 info |-> MergePiiInfo(acc.info, r.info)])

\* the loops of the dict and list branches: children k..n in order, each
\* child's info merged into the accumulated one
RedactChildren(nodes, language, k, acc) ==
    IF k > Len(nodes) THEN acc
    ELSE LET r == RedactJson(nodes[k], language)
         IN RedactChildren(nodes, language, k + 1,
                [data |-> Append(acc.data, r.data),
                 info |-> MergePiiInfo(acc.info, r.info)])

\* variant: a mapping that carries its own language field is redacted in that
\* language
RedactJson_PerSubtree(data, language) ==
    IF IsStr(data) THEN RedactLeaf(data.str, language)
    ELSE IF IsDict(data)
    THEN LET vals == [i \in 1..Len(data.dict) |-> data.dict[i].v]
             own == IF \E i \in 1..Len(data.dict) : data.dict[i].k = "language"
                    THEN IF \E i \in 1..Len(data.dict) :
                                data.dict[i].k = "language" /\ data.dict[i].v = JStr(<<"it">>)
                         THEN ITALIAN ELSE ENGLISH
                    ELSE language
             r == RedactChildren(vals, own, 1,
                                 [data |-> <<>>, info |-> EmptyPiiInfo])
         IN [data |-> JDict([i \in 1..Len(data.dict) |->
                                Item(data.dict[i].k, r.data[i])]),
             info |-> r.info]
    ELSE IF IsList(data)
    THEN LET r == RedactChildren(data.list, language, 1,
                                 [data |-> <<>>, info |-> EmptyPiiInfo])
         IN [data |-> JList(r.data), info |-> r.info]
    ELSE [data |-> data, info |-> EmptyPiiInfo]

RedactJson(data, language) ==
    IF IsStr(data) THEN RedactLeaf(data.str, language)
    ELSE IF IsDict(data)
    THEN LET vals == [i \in 1..Len(data.dict) |-> data.dict[i].v]
             r == RedactChildren(vals, language, 1,
                                 [data |-> <<>>, info |-> EmptyPiiInfo])
         IN [data |-> JDict([i \in 1..Len(data.dict) |->
                                Item(data.dict[i].k, r.data[i])]),
             info |-> r.info]
    ELSE IF IsList(data)
    THEN LET r == RedactChildren(data.list, language, 1,
                                 [data |-> <<>>, info |-> EmptyPiiInfo])
         IN [data |-> JList(r.data), info |-> r.info]
    ELSE [data |-> data, info |-> EmptyPiiInfo]

\* _extract_language(data)
DictGet(d, key, default) ==
    IF \E i \in 1..Len(d.dict) : d.dict[i].k = key
    THEN d.dict[CHOOSE i \in 1..Len(d.dict) : d.dict[i].k = key].v
    ELSE default

ExtractLanguage(data) ==
    IF IsDict(data) /\ DictGet(data, "language", JStr(<<"en">>)) = JStr(<<"it">>)
    THEN ITALIAN
    ELSE ENGLISH


\* ====================================================================
\* The governance pipeline (SecurityGatekeeperMiddleware.dispatch)
\* ====================================================================
RequestBodyLen == 3
OpaqueBodyLen == 5

\* --- response bodies: how the bytes were produced, and the tree they encode
\* "compact": JSON as the downstream handler serialises it
\* "dumps"  : JSON as json.dumps(tree) serialises it (", " and ": " separators)
\* "text"   : bytes that decode but are not JSON;  "binary": bytes that do not
\*            decode as UTF-8;  "empty": b""
Body(enc, tree) == [enc |-> enc, tree |-> tree]
EmptyBody == Body("empty", JNull)

\* len(s) of the tokens and keys of the model (all of them ASCII, none with a
\* character that JSON escapes)
StrLen(s) ==
    CASE s = "a@b.com" -> 7
      [] s = "Mario Rossi" -> 11
      [] s = "RSSMRA80A01H501U" -> 16
      [] s = "contact" -> 7
      [] s = "Rate limit exceeded" -> 19
      [] s = "[REDACTED_EMAIL]" -> 16
      [] s = "[REDACTED_PHONE]" -> 16
      [] s = "[REDACTED_NAME]" -> 15
      [] s = "[REDACTED_LOCATION]" -> 19
      [] s = "[REDACTED_CODICE_FISCALE]" -> 25
      [] s = "[REDACTED]" -> 10
      [] s = "<EMAIL_ADDRESS>" -> 15
      [] s = "<PHONE_NUMBER>" -> 14
      [] s = "<PERSON>" -> 8
      [] s = "<LOCATION>" -> 10
      [] s = "<IT_FISCAL_CODE>" -> 16
      [] s = "<>" -> 2
      [] s \in {"it", "en"} -> 2
      [] s \in {"a", "b", "n"} -> 1
      [] s = "text" -> 4
      [] s = "reply" -> 5
      [] s = "items" -> 5
      [] s = "detail" -> 6
      [] s = "language" -> 8
      [] s = "retry_after_seconds" -> 19

\* a text is its tokens joined by single spaces
RECURSIVE TextLen(_)
TextLen(text) ==
    IF text = <<>> THEN 0
    ELSE StrLen(Head(text)) + (IF Len(text) > 1 THEN 1 ELSE 0) + TextLen(Tail(text))

\* the digits of a non-negative integer
RECURSIVE NumLen(_)
NumLen(n) == IF n < 10 THEN 1 ELSE 1 + NumLen(n \div 10)

RECURSIVE JsonLen(_, _)
RECURSIVE JsonLenSum(_, _, _)
JsonLenSum(nodes, sep, k) ==
    IF k > Len(nodes) THEN 0
    ELSE JsonLen(nodes[k], sep) + JsonLenSum(nodes, sep, k + 1)
RECURSIVE KeyLenSum(_, _)
KeyLenSum(items, k) ==
    IF k > Len(items) THEN 0
    ELSE StrLen(items[k].k) + 2 + KeyLenSum(items, k + 1)
\* number of bytes of the serialisation; sep is the length of the item
\* separator and of the key separator ("," and ":" or ", " and ": ")
JsonLen(d, sep) ==
    IF IsStr(d) THEN TextLen(d.str) + 2
    ELSE IF IsList(d)
    THEN 2 + JsonLenSum(d.list, sep, 1)
           + (IF Len(d.list) > 1 THEN (Len(d.list) - 1) * sep ELSE 0)
    ELSE IF IsDict(d)
    THEN 2 + JsonLenSum([i \in 1..Len(d.dict) |-> d.dict[i].v], sep, 1)
           + KeyLenSum(d.dict, 1) + Len(d.dict) * sep
           + (IF Len(d.dict) > 1 THEN (Len(d.dict) - 1) * sep ELSE 0)
    ELSE IF DOMAIN d = {"num"} THEN NumLen(d.num)
    ELSE IF DOMAIN d = {"bool"} THEN (IF d.bool THEN 4 ELSE 5)
    ELSE 4

\* len(body)
BodyLen(b) ==
    CASE b.enc = "empty" -> 0
      [] b.enc = "compact" -> JsonLen(b.tree, 1)
      [] b.enc = "dumps" -> JsonLen(b.tree, 2)
      [] OTHER -> OpaqueBodyLen

\* json.dumps(tree).encode("utf-8")
JsonDumps(tree) == Body("dumps", tree)

\* JSONResponse(content=tree).body: rendered with the separators "," and ":"
JsonRender(tree) == Body("compact", tree)

\* body.decode("utf-8") then json.loads: the tree, or the exception raised
JsonLoads(b) ==
    CASE b.enc \in {"compact", "dumps"} -> [ok |-> TRUE, tree |-> b.tree, error |-> "-"]
      [] b.enc = "binary" -> [ok |-> FALSE, tree |-> JNull, error |-> "UnicodeDecodeError"]
      [] OTHER -> [ok |-> FALSE, tree |-> JNull, error |-> "JSONDecodeError"]

\* Response(status_code, content-type is application/json, body, Retry-After header)
Response(status, is_json, body, retry_hdr) ==
    [status_code |-> status, is_json |-> is_json, body |-> body,
     retry_after |-> retry_hdr]
NullResponse == Response(0, FALSE, EmptyBody, None)

\* --- paths
EXCLUDED_PATHS ==
    {"/health", "/health/ready", "/health/live", "/docs", "/redoc",
     "/openapi.json", "/favicon.ico"}
\* path.startswith("/admin/audit") on the paths of the model
StartsWithExcludedPrefix(path) == path \in {"/admin/audit", "/admin/audit/logs"}
IsExcluded(path) == path \in EXCLUDED_PATHS \/ StartsWithExcludedPrefix(path)

Paths == {"/health", "/admin/audit/logs", "/demo/chat"}
Methods == {"GET", "POST"}

\* --- roles: the X-User-Role header, None when the header is absent
RoleStrings == {"admin", "ADMIN", "Admin", "junior_intern", "developer", "guest"}
RoleHeaders == {None} \cup {Some(r) : r \in RoleStrings}
Lower(str) == IF str \in {"ADMIN", "Admin"} THEN "admin" ELSE str

\* _map_role(role_str): role_str.lower() raises AttributeError on None
MapRole(role_hdr) ==
    IF role_hdr = None
    THEN [ok |-> FALSE, role |-> "-"]
    ELSE LET key == Lower(role_hdr[1])
         IN [ok |-> TRUE,
             role |-> CASE key = "admin" -> ADMIN
                        [] key = "junior_intern" -> JUNIOR_INTERN
                        [] key = "intern" -> JUNIOR_INTERN
                        [] key = "developer" -> JUNIOR_INTERN
                        [] OTHER -> JUNIOR_INTERN]

PipeProcs == {1}
\* every request carries an X-User-ID header. Without one user_id is None
\* (auth.py:23) and AuditEntry(user_id=None) is refused when the record is
\* built: one more way for a request to end without a record
PipeUsers == {"u1"}


\* AuditEntry (the fields the pipeline sets)
AuditEntry(role, action, request_size, response_size, status, pii, remaining, violation, details) ==
    [user_role |-> role, action |-> action, request_size |-> request_size,
     response_size |-> response_size, status_code |-> status,
     pii_detected |-> pii.detected, pii_types_found |-> pii.types,
     pii_count |-> pii.count, rate_limit_remaining |-> remaining,
     violation |-> violation, violation_details |-> details]

RATE_LIMIT_EXCEEDED == "rate_limit_exceeded"

IdleReq ==
    [pc |-> "idle", path |-> "-", user_id |-> "-", user_role_str |-> None,
     user_role |-> "-",
     policy |-> NullPolicy, method |-> "-", request_size |-> 0,
     rate_limit_remaining |-> None, rate_result |-> None, branch |-> "-",
     downstream |-> NullResponse, downstream_calls |-> 0, redactor_calls |-> 0,
     response |-> NullResponse, response_body |-> EmptyBody,
     pii |-> EmptyPiiInfo, audits |-> 0, entry |-> None, error |-> "-"]

\* variant: a role without a policy is answered with a default policy
GetPolicy_ReturnsDefault(reg, role) ==
    IF role \in DOMAIN reg
    THEN [ok |-> TRUE, policy |-> reg[role]]
    ELSE [ok |-> TRUE, policy |-> RolePolicy(role, TRUE, None)]

\* RolePolicyRegistry.get_policy(role)
GetPolicy(reg, role) ==
    IF role \in DOMAIN reg
    THEN [ok |-> TRUE, policy |-> reg[role]]
    ELSE [ok |-> FALSE, policy |-> NullPolicy]

\* lines 142-145: a request that carries a body waits for it before the
\* endpoint is called
BodyMethods == {"POST", "PUT", "PATCH"}
ForwardPc(method) == IF method \in BodyMethods THEN "read_body" ELSE "call_next"

\* lines 69-95: exclusion test, role mapping, policy lookup, start of the
\* quota check
DispatchBegin(p, path, user_id, role_hdr, method) ==
    LET m == MapRole(role_hdr)
        g == GetPolicy(registry, m.role)
        r0 == [IdleReq EXCEPT !.path = path, !.user_id = user_id, !.method = method]
        r1 == [r0 EXCEPT !.user_role_str = role_hdr]
    IN  /\ reqs[p].pc = "idle"
        /\ calls[p].pc = "idle"
        /\ ncalls < MaxRequests
        /\ ncalls' = ncalls + 1
        /\ IF IsExcluded(path)
           THEN /\ reqs' = [reqs EXCEPT ![p] = [r0 EXCEPT !.pc = "bypass"]]
                /\ calls' = calls
           ELSE IF ~m.ok
           THEN /\ reqs' = [reqs EXCEPT ![p] =
                               [r1 EXCEPT !.pc = "failed", !.error = "AttributeError"]]
                /\ calls' = calls
           ELSE IF ~g.ok
           THEN /\ reqs' = [reqs EXCEPT ![p] =
                               [r1 EXCEPT !.pc = "failed", !.user_role = m.role,
                                          !.error = "PolicyNotFoundError"]]
                /\ calls' = calls
           ELSE IF g.policy.rate_limit # None
           THEN /\ reqs' = [reqs EXCEPT ![p] =
                               [r1 EXCEPT !.pc = "rate_limit", !.user_role = m.role,
                                          !.policy = g.policy]]
                /\ calls' = [calls EXCEPT ![p] = CheckBegin(p, user_id, g.policy)]
           ELSE /\ reqs' = [reqs EXCEPT ![p] =
                               [r1 EXCEPT !.pc = ForwardPc(method), !.user_role = m.role,
                                          !.policy = g.policy, !.branch = "forwarded"]]
                /\ calls' = calls
        /\ UNCHANGED <<now, store, ttl, admits, slid, registry, loader, redvars>>

\* line 71: an excluded path goes straight to the downstream handler, whose
\* response or exception is what dispatch returns or raises
\* variant: the excluded request is audited like a forwarded one
Bypass_LogsRequest(p, resp, raises) ==
    /\ reqs[p].pc = "bypass"
    /\ reqs' = [reqs EXCEPT ![p] =
                   IF raises
                   THEN [@ EXCEPT !.pc = "failed", !.downstream_calls = @ + 1,
                                  !.error = "DownstreamError"]
                   ELSE [@ EXCEPT !.pc = "done", !.downstream = resp,
                                  !.downstream_calls = @ + 1, !.response = resp,
                                  !.audits = @ + 1]]
    /\ UNCHANGED <<now, store, ttl, calls, ncalls, admits, slid, registry, loader, redvars>>

Bypass(p, resp, raises) ==
    /\ reqs[p].pc = "bypass"
    /\ reqs' = [reqs EXCEPT ![p] =
                   IF raises
                   THEN [@ EXCEPT !.pc = "failed", !.downstream_calls = @ + 1,
                                  !.error = "DownstreamError"]
                   ELSE [@ EXCEPT !.pc = "done", !.downstream = resp,
                                  !.downstream_calls = @ + 1, !.response = resp]]
    /\ UNCHANGED <<now, store, ttl, calls, ncalls, admits, slid, registry, loader, redvars>>

\* lines 96-129: the rate limiter returned; a rejection builds the violation
\* record
RejectEntry(r) ==
    AuditEntry(r.user_role, "rate_limit_violation", 0, 0, 429, EmptyPiiInfo,
               Some(0), Some(RATE_LIMIT_EXCEEDED),
               Some(<<LimitOf(r.policy), r.policy.rate_limit[1].window_seconds>>))

\* variant: the rejection branch does not return, the request goes on to the
\* endpoint
AfterRateLimit_FallsThrough(r, rate_result) ==
    [r EXCEPT !.pc = ForwardPc(r.method), !.branch = "forwarded",
              !.rate_result = Some(rate_result),
              !.rate_limit_remaining = Some(rate_result.remaining)]

\* variant: an admitted request is audited straight away, before the endpoint
\* is called
AfterRateLimit_AuditsFirst(r, rate_result) ==
    IF ~rate_result.allowed
    THEN [r EXCEPT !.pc = "reject_log", !.branch = "rejected",
                   !.rate_result = Some(rate_result),
                   !.rate_limit_remaining = Some(rate_result.remaining)]
    ELSE [r EXCEPT !.pc = "log", !.branch = "forwarded",
                   !.rate_result = Some(rate_result),
                   !.rate_limit_remaining = Some(rate_result.remaining)]

AfterRateLimit(r, rate_result) ==
    IF ~rate_result.allowed
    THEN [r EXCEPT !.pc = "reject_log", !.branch = "rejected",
                   !.rate_result = Some(rate_result),
                   !.rate_limit_remaining = Some(rate_result.remaining)]
    ELSE [r EXCEPT !.pc = ForwardPc(r.method), !.branch = "forwarded",
                   !.rate_result = Some(rate_result),
                   !.rate_limit_remaining = Some(rate_result.remaining)]

RateLimitReturn(p) ==
    /\ reqs[p].pc = "rate_limit"
    /\ calls[p].pc = "returned"
    /\ reqs' = [reqs EXCEPT ![p] = AfterRateLimit(reqs[p], calls[p].result)]
    /\ calls' = [calls EXCEPT ![p] = IdleCall]
    /\ UNCHANGED <<now, store, ttl, ncalls, admits, slid, registry, loader, redvars>>

\* x or default
PyOr(opt, default) == IF opt = None \/ opt = Some(0) THEN default ELSE opt[1]

\* variant: the Retry-After header always carries the fallback of 60 seconds
RejectResponse_FallbackHeader(rate_result) ==
    Response(429, TRUE,
             JsonRender(JDict(<<Item("detail", JStr(<<"Rate limit exceeded">>)),
                               Item("retry_after_seconds",
                                    IF rate_result.retry_after_seconds = None
                                    THEN JNull
                                    ELSE JNum(rate_result.retry_after_seconds[1]))>>)),
             Some(60))

\* lines 132-139: the 429 response
RejectResponse(rate_result) ==
    Response(429, TRUE,
             JsonRender(JDict(<<Item("detail", JStr(<<"Rate limit exceeded">>)),
                               Item("retry_after_seconds",
                                    IF rate_result.retry_after_seconds = None
                                    THEN JNull
                                    ELSE JNum(rate_result.retry_after_seconds[1]))>>)),
             Some(PyOr(rate_result.retry_after_seconds, 60)))

\* lines 130-139: audit_logger.log(entry), which may raise, then the 429
RejectLog(p, sink_ok) ==
    LET r == reqs[p]
    IN  /\ r.pc = "reject_log"
        /\ reqs' = [reqs EXCEPT ![p] =
                       IF sink_ok
                       THEN [r EXCEPT !.pc = "done", !.audits = @ + 1,
                                      !.entry = Some(RejectEntry(r)),
                                      !.response = RejectResponse(r.rate_result[1])]
                       ELSE [r EXCEPT !.pc = "failed", !.audits = @ + 1,
                                      !.error = "SinkError"]]
        /\ UNCHANGED <<now, store, ttl, calls, ncalls, admits, slid, registry, loader, redvars>>

\* lines 143-149: request_body is b"" unless the method carries a body, then
\* it is what `await request.body()` returns
RequestSize(method) ==
    IF method \in BodyMethods THEN RequestBodyLen ELSE 0

ReadBody(p) ==
    LET r == reqs[p]
    IN  /\ r.pc = "read_body"
        /\ reqs' = [reqs EXCEPT ![p] =
                       [r EXCEPT !.pc = "call_next",
                                 !.request_size = RequestSize(r.method)]]
        /\ UNCHANGED <<now, store, ttl, calls, ncalls, admits, slid, registry, loader, redvars>>

\* line 152: `await call_next(request)`, the endpoint (which may raise)
CallNext(p, resp, raises) ==
    LET r == reqs[p]
    IN  /\ r.pc = "call_next"
        /\ reqs' = [reqs EXCEPT ![p] =
                       IF raises
                       THEN [r EXCEPT !.pc = "failed", !.downstream_calls = @ + 1,
                                      !.error = "DownstreamError"]
                       ELSE [r EXCEPT !.pc = "process", !.downstream_calls = @ + 1,
                                      !.downstream = resp]]
        /\ UNCHANGED <<now, store, ttl, calls, ncalls, admits, slid, registry, loader, redvars>>

\* number of pii_redactor.redact calls _redact_json makes: one per string leaf
RECURSIVE CountLeaves(_)
RECURSIVE CountLeavesIn(_, _)
CountLeavesIn(nodes, k) ==
    IF k > Len(nodes) THEN 0
    ELSE CountLeaves(nodes[k]) + CountLeavesIn(nodes, k + 1)
CountLeaves(d) ==
    IF IsStr(d) THEN 1
    ELSE IF IsList(d) THEN CountLeavesIn(d.list, 1)
    ELSE IF IsDict(d) THEN CountLeavesIn([i \in 1..Len(d.dict) |-> d.dict[i].v], 1)
    ELSE 0

\* variant: the redacted tree is computed and counted but the response is
\* rebuilt from the bytes the endpoint sent
ProcessedResponse_KeepsBody(r) ==
    LET resp == r.downstream
        loaded == JsonLoads(resp.body)
        red == RedactJson(loaded.tree, ExtractLanguage(loaded.tree))
        redacting == r.policy.pii_redaction_enabled /\ resp.body.enc # "empty"
                     /\ loaded.ok
    IN  IF resp.is_json
        THEN [r EXCEPT !.pc = "log",
                       !.pii = IF redacting THEN red.info ELSE EmptyPiiInfo,
                       !.redactor_calls = IF redacting THEN CountLeaves(loaded.tree) ELSE 0,
                       !.response_body = resp.body,
                       !.response = Response(resp.status_code, TRUE, resp.body, None)]
        ELSE [r EXCEPT !.pc = "log", !.response = resp]

\* variant: when the body does not parse, the bytes collected from the endpoint
\* are lost and the response is rebuilt empty
ProcessedResponse_DropsUnparsed(r) ==
    LET resp == r.downstream
        loaded == JsonLoads(resp.body)
        red == RedactJson(loaded.tree, ExtractLanguage(loaded.tree))
        redacting == r.policy.pii_redaction_enabled /\ resp.body.enc # "empty"
                     /\ loaded.ok
        body == IF redacting /\ red.info.detected THEN JsonDumps(red.data)
                ELSE IF loaded.ok THEN resp.body
                ELSE EmptyBody
    IN  IF resp.is_json
        THEN [r EXCEPT !.pc = "log",
                       !.pii = IF redacting THEN red.info ELSE EmptyPiiInfo,
                       !.redactor_calls = IF redacting THEN CountLeaves(loaded.tree) ELSE 0,
                       !.response_body = body,
                       !.response = Response(resp.status_code, TRUE, body, None)]
        ELSE [r EXCEPT !.pc = "log", !.response = resp]

\* variant: the response is redacted whatever the policy of the role says
ProcessedResponse_IgnoresPolicy(r) ==
    LET resp == r.downstream
        loaded == JsonLoads(resp.body)
        red == RedactJson(loaded.tree, ExtractLanguage(loaded.tree))
        redacting == resp.body.enc # "empty" /\ loaded.ok
        body == IF redacting /\ red.info.detected THEN JsonDumps(red.data)
                ELSE resp.body
    IN  IF resp.is_json
        THEN [r EXCEPT !.pc = "log",
                       !.pii = IF redacting THEN red.info ELSE EmptyPiiInfo,
                       !.redactor_calls = IF redacting THEN CountLeaves(loaded.tree) ELSE 0,
                       !.response_body = body,
                       !.response = Response(resp.status_code, TRUE, body, None)]
        ELSE [r EXCEPT !.pc = "log", !.response = resp]

\* lines 156-204: PII redaction of a JSON response
\* variant: whenever the redaction ran, the body is the re-serialised tree
ProcessedResponse_AlwaysReserialises(r) ==
    LET resp == r.downstream
        loaded == JsonLoads(resp.body)
        red == RedactJson(loaded.tree, ExtractLanguage(loaded.tree))
        redacting == r.policy.pii_redaction_enabled /\ resp.body.enc # "empty"
                     /\ loaded.ok
        body == IF redacting THEN JsonDumps(red.data) ELSE resp.body
    IN  IF resp.is_json
        THEN [r EXCEPT !.pc = "log",
                       !.pii = IF redacting THEN red.info ELSE EmptyPiiInfo,
                       !.redactor_calls = IF redacting THEN CountLeaves(loaded.tree) ELSE 0,
                       !.response_body = body,
                       !.response = Response(resp.status_code, TRUE, body, None)]
        ELSE [r EXCEPT !.pc = "log", !.response = resp]

ProcessedResponse(r) ==
    LET resp == r.downstream
        loaded == JsonLoads(resp.body)
        red == RedactJson(loaded.tree, ExtractLanguage(loaded.tree))
        redacting == r.policy.pii_redaction_enabled /\ resp.body.enc # "empty"
                     /\ loaded.ok
        body == IF redacting /\ red.info.detected THEN JsonDumps(red.data)
                ELSE resp.body
    IN  IF resp.is_json
        THEN [r EXCEPT !.pc = "log",
                       !.pii = IF redacting THEN red.info ELSE EmptyPiiInfo,
                       !.redactor_calls = IF redacting THEN CountLeaves(loaded.tree) ELSE 0,
                       !.response_body = body,
                       !.response = Response(resp.status_code, TRUE, body, None)]
        ELSE [r EXCEPT !.pc = "log", !.response = resp]

ProcessResponse(p) ==
    /\ reqs[p].pc = "process"
    /\ reqs' = [reqs EXCEPT ![p] = ProcessedResponse(reqs[p])]
    /\ UNCHANGED <<now, store, ttl, calls, ncalls, admits, slid, registry, loader, redvars>>

\* lines 206-230: the audit record of a forwarded request, audit_logger.log
\* (which may raise), and the return
\* variant: a forwarded request that took the last slot is recorded as a
\* violation
ForwardEntry_FlagsExhausted(r) ==
    AuditEntry(r.user_role, <<r.method, r.path>>, r.request_size,
               BodyLen(r.response_body), r.response.status_code, r.pii,
               r.rate_limit_remaining,
               IF r.rate_limit_remaining = Some(0) THEN Some(RATE_LIMIT_EXCEEDED) ELSE None,
               None)

ForwardEntry(r) ==
    AuditEntry(r.user_role, <<r.method, r.path>>, r.request_size,
               BodyLen(r.response_body), r.response.status_code, r.pii,
               r.rate_limit_remaining, None, None)

AuditLog(p, sink_ok) ==
    LET r == reqs[p]
    IN  /\ r.pc = "log"
        /\ reqs' = [reqs EXCEPT ![p] =
                       IF sink_ok
                       THEN [r EXCEPT !.pc = "done", !.audits = @ + 1,
                                      !.entry = Some(ForwardEntry(r))]
                       ELSE [r EXCEPT !.pc = "failed", !.audits = @ + 1,
                                      !.error = "SinkError"]]
        /\ UNCHANGED <<now, store, ttl, calls, ncalls, admits, slid, registry, loader, redvars>>

\* the request is over; the process takes the next one
Finish(p) ==
    /\ reqs[p].pc \in {"done", "failed"}
    /\ reqs' = [reqs EXCEPT ![p] = IdleReq]
    /\ UNCHANGED <<now, store, ttl, calls, ncalls, admits, slid, registry, loader, redvars>>


\* ====================================================================
\* The policy source and RolePolicyRegistry.reload
\* ====================================================================
MaxReloads == 1

\* the roles file: kind is "missing" (no such file), "invalid" (not YAML),
\* "empty" (YAML without content) or "ok"; roles are its entries in file order
Source(kind, roles) == [kind |-> kind, roles |-> roles]
\* an entry: role name, pii_redaction_enabled (None: key absent), rate_limit
\* (None: key absent, else requests_per_hour and window_seconds)
ConfigEntry(role_name, pii, rl) == [role_name |-> role_name, pii |-> pii, rate_limit |-> rl]

NoPolicies == [r \in {} |-> NullPolicy]

\* RateLimitConfig.__post_init__
RateLimitConfigValid(rl) == ~(rl.requests_per_hour < 0) /\ ~(rl.window_seconds <= 0)

\* self._policies[role] = policy
PutPolicy(policies, role, policy) ==
    [r \in DOMAIN policies \cup {role} |-> IF r = role THEN policy ELSE policies[r]]

\* lines 96-118: the loop over the entries, from entry k on
RECURSIVE LoadRoles(_, _, _)
LoadRoles(policies, entries, k) ==
    IF k > Len(entries) THEN [error |-> "-", policies |-> policies]
    ELSE LET e == entries[k]
         IN IF e.role_name \notin UserRole
            THEN LoadRoles(policies, entries, k + 1)
            ELSE IF e.rate_limit # None /\ ~RateLimitConfigValid(e.rate_limit[1])
            THEN [error |-> "ValueError", policies |-> policies]
            ELSE LoadRoles(
                    PutPolicy(policies, e.role_name,
                              RolePolicy(e.role_name,
                                         IF e.pii = None THEN TRUE ELSE e.pii[1],
                                         e.rate_limit)),
                    entries, k + 1)

\* _load_policies(): the outcome and self._policies afterwards
LoadPolicies(policies, source) ==
    CASE source.kind = "missing" -> [error |-> "ConfigurationError", policies |-> policies]
      [] source.kind = "invalid" -> [error |-> "ConfigurationError", policies |-> policies]
      [] source.kind = "empty" -> [error |-> "AttributeError", policies |-> policies]
      [] OTHER -> LoadRoles(policies, source.roles, 1)

\* the state of the loader after the constructor loaded reg
StartupLoader(reg) == [reloads |-> 0, error |-> "-", committed |-> reg]

\* reload(): self._policies.clear(), then self._load_policies()
Reload(source) ==
    LET res == LoadPolicies(NoPolicies, source)
    IN  /\ loader.reloads < MaxReloads
        /\ registry' = res.policies
        /\ loader' = [reloads |-> loader.reloads + 1,
                      error |-> res.error,
                      committed |-> IF res.error = "-" THEN res.policies
                                    ELSE loader.committed]
        /\ UNCHANGED <<rlvars, reqs, redvars>>

\* ====================================================================
\* Inputs
\* ====================================================================
MaxItems == 3

SeqsUpTo(S, n) == UNION {[1..k -> S] : k \in 0..n}

\* texts: "", "contact", "contact a@b.com", "Mario Rossi a@b.com a@b.com",
\* a fiscal code, and the language tags
Texts ==
    {<<>>, <<Plain>>, <<Plain, RawEmail>>, <<RawPerson, RawEmail, RawEmail>>,
     <<RawFiscal>>, <<"it">>, <<"en">>}
Scalars == {JStr(t) : t \in Texts} \cup {JNum(1), JBool(TRUE), JNull}

InnerScalars ==
    {JStr(<<Plain>>), JStr(<<Plain, RawEmail>>),
     JStr(<<RawPerson, RawEmail, RawEmail>>), JStr(<<RawFiscal>>), JNum(1), JNull}
LanguageValues == {JStr(<<"it">>), JStr(<<"en">>), JNum(1)}

DictsOver(S) ==
    {JDict(<<>>)}
    \cup {JDict(<<Item("a", x)>>) : x \in S}
    \cup {JDict(<<Item("a", x), Item("b", y)>>) : x \in S, y \in S}
    \cup {JDict(<<Item("language", l), Item("a", x)>>) : l \in LanguageValues, x \in S}
    \cup {JDict(<<Item("a", x), Item("language", l)>>) : l \in LanguageValues, x \in S}

Level1 ==
    {JList(items) : items \in SeqsUpTo(InnerScalars, MaxItems - 1)}
    \cup DictsOver(InnerScalars)

\* the subtrees nested one level deeper
Inner ==
    {JStr(<<Plain, RawEmail>>), JStr(<<RawFiscal>>), JNum(1),
     JList(<<>>),
     JList(<<JStr(<<RawPerson, RawEmail, RawEmail>>), JNull>>),
     JDict(<<Item("b", JStr(<<RawPerson, RawEmail, RawEmail>>))>>),
     JDict(<<Item("language", JStr(<<"it">>)), Item("a", JStr(<<RawFiscal>>))>>),
     JDict(<<Item("a", JStr(<<Plain>>)), Item("b", JStr(<<RawFiscal>>))>>)}

Level2 ==
    {JList(items) : items \in SeqsUpTo(Inner, MaxItems)}
    \cup DictsOver(Inner)

Payloads == Scalars \cup Level1 \cup Level2

\* the bodies the downstream handler answers with
PipePayloads ==
    {JDict(<<Item("text", JStr(<<Plain, RawEmail>>))>>),
     JDict(<<Item("reply", JStr(<<Plain>>)), Item("n", JNum(1))>>),
     JDict(<<Item("language", JStr(<<"it">>)),
             Item("items", JList(<<JStr(<<RawFiscal>>), JStr(<<RawPerson, RawEmail, RawEmail>>)>>))>>),
     JList(<<JStr(<<RawFiscal>>), JNull>>),
     JStr(<<RawPerson, RawEmail, RawEmail>>)}

DownstreamResponses ==
    {Response(200, TRUE, Body("compact", t), None) : t \in PipePayloads}
    \cup {Response(200, TRUE, Body("text", JNull), None),
          Response(200, TRUE, Body("binary", JNull), None),
          Response(200, TRUE, EmptyBody, None),
          Response(200, FALSE, Body("text", JNull), None),
          Response(404, TRUE,
                   Body("compact", JDict(<<Item("detail", JStr(<<RawPerson>>))>>)), None)}

\* the registries a configuration file can load: both roles, or the
\* privileged role alone
Registries ==
    {LoadedPolicies, [r \in {ADMIN} |-> LoadedPolicies[r]]}

\* ====================================================================
\* Specifications
\* ====================================================================
PipeIdle ==
    /\ registry = LoadedPolicies
    /\ loader = StartupLoader(LoadedPolicies)
    /\ reqs = [p \in PipeProcs |-> IdleReq]

RedactIdle ==
    /\ payload = JNull
    /\ lang = ENGLISH
    /\ outcome = None

\* the rate limiter builds no list from a set: its specifications follow one
\* interpreter, the one with hash randomisation off (PYTHONHASHSEED = 0)
HashIdle == hashseed = Interpreter(<<7, 2, 5>>, <<2, 5, 1>>, <<5, 4, 6>>)

\* --- the rate limiter under concurrent callers
Init == RLInit /\ PipeIdle /\ RedactIdle /\ HashIdle

LimiterPolicies == {LoadedPolicies[r] : r \in UserRole}

LimiterSteps ==
    \E p \in Procs :
        \/ PipeExecute(p)
        \/ ZAdd(p)
        \/ Expire(p)
        \/ ZRange(p)
        \/ PeekRemove(p)
        \/ PeekCard(p)
        \/ Return(p)

LimiterCalls ==
    \E p \in Procs, u \in Users :
        \/ \E policy \in LimiterPolicies : CheckAndRecord(p, u, policy)
        \/ \E policy \in LimiterPolicies : GetRemaining(p, u, policy)
        \/ Reset(p, u)

Next == Tick \/ (ncalls < MaxConcurrentCalls /\ LimiterCalls) \/ LimiterSteps

Spec == Init /\ [][Next]_vars

\* --- the rate limiter with one call at a time
AllIdle == \A p \in Procs : calls[p].pc = "idle"

SeqNext == Tick \/ (AllIdle /\ LimiterCalls) \/ LimiterSteps

SpecSeq == Init /\ [][SeqNext]_vars

\* --- the rate limiter with one call at a time, under a configuration that
\* grants the restricted role a single request per window
SingleSlotPolicy ==
    RolePolicy(JUNIOR_INTERN, TRUE, Some(RateLimitConfig(1, WindowSeconds)))

SingleCalls ==
    \E p \in Procs, u \in Users :
        \/ CheckAndRecord(p, u, SingleSlotPolicy)
        \/ GetRemaining(p, u, SingleSlotPolicy)
        \/ Reset(p, u)

SingleNext == Tick \/ (AllIdle /\ SingleCalls) \/ LimiterSteps

SpecSingle == Init /\ [][SingleNext]_vars

\* --- the pipeline
PipeInit ==
    /\ RLInit
    /\ registry \in Registries
    /\ loader = StartupLoader(registry)
    /\ reqs = [p \in PipeProcs |-> IdleReq]
    /\ RedactIdle
    /\ hashseed \in HashSeeds

PipeNext ==
    \/ Tick
    \/ \E p \in PipeProcs :
        \/ \E path \in Paths, u \in PipeUsers, role \in RoleHeaders, m \in Methods :
              DispatchBegin(p, path, u, role, m)
        \/ \E resp \in DownstreamResponses, raises \in BOOLEAN : Bypass(p, resp, raises)
        \/ PipeExecute(p)
        \/ ZAdd(p)
        \/ Expire(p)
        \/ ZRange(p)
        \/ RateLimitReturn(p)
        \/ \E ok \in BOOLEAN : RejectLog(p, ok)
        \/ ReadBody(p)
        \/ \E resp \in DownstreamResponses, raises \in BOOLEAN : CallNext(p, resp, raises)
        \/ ProcessResponse(p)
        \/ \E ok \in BOOLEAN : AuditLog(p, ok)
        \/ Finish(p)

SpecPipe == PipeInit /\ [][PipeNext]_vars

\* the pipeline under one interpreter: the responses of the specifications
\* below hold one kind at most, so the iteration order of a set plays no part
ReloadInit ==
    /\ RLInit
    /\ registry \in Registries
    /\ loader = StartupLoader(registry)
    /\ reqs = [p \in PipeProcs |-> IdleReq]
    /\ RedactIdle
    /\ HashIdle

\* --- the pipeline while the registry is reloaded
AdminEntry == ConfigEntry("admin", Some(FALSE), None)
JuniorEntry ==
    ConfigEntry("junior_intern", None, Some(RateLimitConfig(Limit, WindowSeconds)))

\* the roles files a reload may find
ReloadSources ==
    {Source("missing", <<>>),
     Source("invalid", <<>>),
     Source("empty", <<>>),
     Source("ok", <<AdminEntry, JuniorEntry>>),
     Source("ok", <<AdminEntry, ConfigEntry("guest", None, None)>>),
     Source("ok", <<AdminEntry,
                    ConfigEntry("junior_intern", Some(TRUE),
                                Some(RateLimitConfig(-1, WindowSeconds)))>>),
     Source("ok", <<ConfigEntry("junior_intern", Some(FALSE), None), AdminEntry>>)}

ReloadRoleHeaders == {Some("admin"), Some("guest")}
ReloadResponses ==
    {Response(200, TRUE,
              Body("compact", JDict(<<Item("text", JStr(<<Plain, RawEmail>>))>>)), None),
     Response(200, FALSE, Body("text", JNull), None)}

ReloadNext ==
    \/ Tick
    \/ \E source \in ReloadSources : Reload(source)
    \/ \E p \in PipeProcs :
        \/ \E u \in PipeUsers, role \in ReloadRoleHeaders :
              DispatchBegin(p, "/demo/chat", u, role, "GET")
        \/ PipeExecute(p)
        \/ ZAdd(p)
        \/ Expire(p)
        \/ ZRange(p)
        \/ RateLimitReturn(p)
        \/ RejectLog(p, TRUE)
        \/ \E resp \in ReloadResponses : CallNext(p, resp, FALSE)
        \/ ProcessResponse(p)
        \/ AuditLog(p, TRUE)
        \/ Finish(p)

SpecReload == ReloadInit /\ [][ReloadNext]_vars



\* --- concurrent check_and_record calls of one subject under a policy of a
\* single request per window of WindowSeconds + 1 seconds, followed one tick
\* past the horizon of the other specifications
RetryPolicy ==
    RolePolicy(JUNIOR_INTERN, TRUE, Some(RateLimitConfig(1, WindowSeconds + 1)))

RetryTick ==
    /\ now < MaxTime + 1
    /\ now' = now + 1
    /\ store' = [u \in Users |->
                    IF ttl[u] # None /\ ttl[u][1] <= now + 1 THEN {} ELSE store[u]]
    /\ ttl' = [u \in Users |->
                    IF ttl[u] # None /\ ttl[u][1] <= now + 1 THEN None ELSE ttl[u]]
    /\ UNCHANGED <<calls, ncalls, admits, slid, pipevars, redvars>>

RetryNext ==
    \/ RetryTick
    \/ \E p \in Procs :
        \/ CheckAndRecord(p, "u1", RetryPolicy)
        \/ PipeExecute(p)
        \/ ZAdd(p)
        \/ Expire(p)
        \/ ZRange(p)
        \/ Return(p)

SpecRetry == Init /\ [][RetryNext]_vars

\* --- concurrent check_and_record calls of one subject under the loaded
\* policy of the restricted role, with an idle period long enough for the
\* key's expiry to fire; no call is in flight during the idle period
ExpiryTicks == (WindowSeconds + KeyGraceSeconds) * TicksPerSecond

ExpiryPolicy == LoadedPolicies[JUNIOR_INTERN]

ElapseTo(t) ==
    /\ now' = t
    /\ store' = [u \in Users |->
                    IF ttl[u] # None /\ ttl[u][1] <= t THEN {} ELSE store[u]]
    /\ ttl' = [u \in Users |->
                    IF ttl[u] # None /\ ttl[u][1] <= t THEN None ELSE ttl[u]]
    /\ UNCHANGED <<calls, ncalls, admits, slid, pipevars, redvars>>

ExpiryTick ==
    /\ now < MaxTime \/ (now >= ExpiryTicks - 1 /\ now < ExpiryTicks + MaxTime)
    /\ ElapseTo(now + 1)

LongIdle ==
    /\ now <= MaxTime
    /\ AllIdle
    /\ \E d \in {ExpiryTicks - 1, ExpiryTicks} : ElapseTo(now + d)

ExpiryNext ==
    \/ ExpiryTick
    \/ LongIdle
    \/ \E p \in Procs :
        \/ CheckAndRecord(p, "u1", ExpiryPolicy)
        \/ PipeExecute(p)
        \/ ZAdd(p)
        \/ Expire(p)
        \/ ZRange(p)
        \/ Return(p)

SpecExpiry == Init /\ [][ExpiryNext]_vars

\* --- the loading of the roles file
\* the entries a roles file may hold for a role, known or not
LoadEntries ==
    {ConfigEntry(name, pii, rl) :
        name \in {"admin", "junior_intern", "guest"},
        pii \in {None, Some(FALSE), Some(TRUE)},
        rl \in {None,
                Some(RateLimitConfig(Limit, WindowSeconds)),
                SingleSlotPolicy.rate_limit,
                Some(RateLimitConfig(0, WindowSeconds)),
                Some(RateLimitConfig(-1, WindowSeconds)),
                Some(RateLimitConfig(Limit, 0))}}

\* the roles files: unreadable ones, and files of up to two roles
LoadSources ==
    {Source("missing", <<>>), Source("invalid", <<>>), Source("empty", <<>>),
     Source("ok", <<>>)}
    \cup {Source("ok", <<e>>) : e \in LoadEntries}
    \cup {Source("ok", <<pair[1], pair[2]>>) :
            pair \in {q \in LoadEntries \X LoadEntries : q[1].role_name # q[2].role_name}}

LoadNext == \E source \in LoadSources : Reload(source)

SpecLoad == ReloadInit /\ [][LoadNext]_vars

\* --- _redact_json as a function of its arguments
RedactInit ==
    /\ RLInit
    /\ PipeIdle
    /\ payload \in Payloads
    /\ lang \in SupportedLanguage
    /\ outcome = None
    /\ hashseed \in HashSeeds

RedactJsonCall ==
    /\ outcome = None
    /\ outcome' = Some(RedactJson(payload, lang))
    /\ UNCHANGED <<rlvars, pipevars, payload, lang, hashseed>>

RedactNext == RedactJsonCall

SpecRedact == RedactInit /\ [][RedactNext]_vars


\* ====================================================================
\* Properties
\* ====================================================================
Decided(c) == c.op = "check" /\ c.pc \in {"zadd", "expire", "zrange", "returned"}
Admitted(c) == c.pc \in {"zadd", "expire"} \/ (c.pc = "returned" /\ c.result.allowed)
Rejected(c) == c.pc = "zrange" \/ (c.pc = "returned" /\ ~c.result.allowed)

\* C1: once Limit calls of a subject have been admitted and all of them are
\* still inside the window of the next check_and_record of that subject, that
\* call is rejected (calls made one at a time, at any times, also at the same
\* instant).
C1_NextCallRejected ==
    \A p \in Procs :
        (/\ Decided(calls[p])
         /\ has_rate_limit(calls[p].policy)
         /\ calls[p].prior >= LimitOf(calls[p].policy))
        => Rejected(calls[p])

\* C2: concurrent check_and_record calls of one subject never admit more than
\* Limit calls whose timestamps lie in one window, and no two callers both hold
\* an admission made on reading the last free slot (count = Limit - 1) before
\* either has inserted.
C2_AtMostLimitAdmitted ==
    \A u \in Users, t \in Times :
        AdmittedInWindow(u, t, WindowSeconds * TicksPerSecond) <= Limit

C2_NoTwoReadersOfLastSlot ==
    \A p \in Procs, q \in Procs :
        (/\ p # q
         /\ calls[p].op = "check" /\ calls[q].op = "check"
         /\ calls[p].user = calls[q].user
         /\ calls[p].pc = "zadd" /\ calls[q].pc = "zadd")
        => ~(calls[p].count = Limit - 1 /\ calls[q].count = Limit - 1)

C2_ConcurrentAdmissions == C2_AtMostLimitAdmitted /\ C2_NoTwoReadersOfLastSlot

\* C3: every request dispatched on a non-excluded path has emitted exactly one
\* audit record when it terminates, whatever the path it terminates on, and
\* never more than one.
C3_ExactlyOneAuditRecord ==
    \A p \in PipeProcs :
        /\ reqs[p].audits <= 1
        /\ (reqs[p].pc \in {"done", "failed"} /\ ~IsExcluded(reqs[p].path))
           => reqs[p].audits = 1

\* C4: a request whose rate-limit decision is allowed = false is on the
\* REJECTED branch and the downstream handler is never invoked for it.
C4_RejectedNeverForwarded ==
    \A p \in PipeProcs :
        /\ (reqs[p].pc = "rate_limit" => reqs[p].downstream_calls = 0)
        /\ (reqs[p].rate_result # None /\ ~reqs[p].rate_result[1].allowed)
           => /\ reqs[p].branch = "rejected"
              /\ reqs[p].downstream_calls = 0
              /\ reqs[p].pc \in {"reject_log", "done", "failed"}
              /\ (reqs[p].pc = "done" => reqs[p].response.status_code = 429)

C4_Witness ==
    \E p \in PipeProcs :
        /\ reqs[p].pc = "done"
        /\ reqs[p].branch = "rejected"
        /\ reqs[p].rate_result # None /\ ~reqs[p].rate_result[1].allowed
        /\ reqs[p].response.status_code = 429

\* C5: with Limit entries in the store, a check_and_record at a time t at which
\* the earliest entry has left the window and the others have not is admitted,
\* and a further check_and_record at that same time t is rejected.
C5_SlidingWindowAdmitsOne ==
    \A p \in Procs :
        /\ (Decided(calls[p]) /\ calls[p].pre = "slide") => Admitted(calls[p])
        /\ (Decided(calls[p]) /\ calls[p].pre = "after") => Rejected(calls[p])

C5_Witness ==
    \E p \in Procs :
        /\ calls[p].op = "check" /\ calls[p].pc = "returned"
        /\ calls[p].pre = "after"
        /\ ~calls[p].result.allowed
        /\ calls[p].now_ts >= WindowSeconds * TicksPerSecond

\* C6: a call of check_and_record or get_remaining with a policy that has no
\* rate limit returns allowed = true, remaining = -1, limit = -1 at once, and
\* the counter store is the same before and after it.
C6_UnlimitedState ==
    \A p \in Procs :
        (calls[p].op \in {"check", "peek"} /\ ~has_rate_limit(calls[p].policy))
        => /\ calls[p].pc = "returned"
           /\ calls[p].result.allowed
           /\ calls[p].result.remaining = -1
           /\ calls[p].result.limit = -1
           /\ calls[p].result.retry_after_seconds = None

C6_UnlimitedStep ==
    \A p \in Procs :
        (\/ (calls'[p].op \in {"check", "peek"} /\ ~has_rate_limit(calls'[p].policy)
             /\ calls[p] # calls'[p])
         \/ (calls[p].op \in {"check", "peek"} /\ ~has_rate_limit(calls[p].policy)
             /\ calls[p] # calls'[p]))
        => store' = store /\ ttl' = ttl

C6_UnlimitedAlwaysAllowed == [] C6_UnlimitedState /\ [][C6_UnlimitedStep]_vars

C6_Witness ==
    \E p \in Procs :
        /\ calls[p].op = "check" /\ calls[p].pc = "returned"
        /\ ~has_rate_limit(calls[p].policy)
        /\ calls[p].result.remaining = -1
        /\ Cardinality(store[calls[p].user]) = Limit

\* the texts of the string leaves of a tree, depth first, in order
RECURSIVE LeafTexts(_)
RECURSIVE LeafTextsIn(_, _)
LeafTextsIn(nodes, k) ==
    IF k > Len(nodes) THEN <<>>
    ELSE LeafTexts(nodes[k]) \o LeafTextsIn(nodes, k + 1)
LeafTexts(d) ==
    IF IsStr(d) THEN <<d.str>>
    ELSE IF IsList(d) THEN LeafTextsIn(d.list, 1)
    ELSE IF IsDict(d) THEN LeafTextsIn([i \in 1..Len(d.dict) |-> d.dict[i].v], 1)
    ELSE <<>>

\* the raw spans the detector reports in the leaves of a tree
DetectedSpans(tree, language) ==
    UNION {{e.text : e \in SeqRange(Detect(t, language))} : t \in SeqRange(LeafTexts(tree))}

ContainsSpan(text, span) ==
    \E i \in 1..Len(text) :
        i + Len(span) - 1 <= Len(text) /\ SubSeq(text, i, i + Len(span) - 1) = span

\* C7: redaction enabled, the downstream body is JSON that parses and the
\* detector reports an entity in some string leaf: the body returned is the
\* redacted tree, no returned leaf is the original text of a leaf with an
\* entity, and no reported raw span occurs in a returned leaf.
C7_ReturnedBodyIsRedacted ==
    \A p \in PipeProcs :
        LET r == reqs[p]
            tree == r.downstream.body.tree
            language == ExtractLanguage(tree)
            orig == LeafTexts(tree)
            ret == LeafTexts(r.response.body.tree)
        IN  (/\ r.pc \in {"log", "done"}
             /\ r.branch = "forwarded"
             /\ r.policy.pii_redaction_enabled
             /\ r.downstream.is_json
             /\ JsonLoads(r.downstream.body).ok
             /\ DetectedSpans(tree, language) # {})
            => /\ r.response.body.enc = "dumps"
               /\ r.response.body # r.downstream.body
               /\ Len(ret) = Len(orig)
               /\ \A i \in 1..Len(orig) :
                     Detect(orig[i], language) # <<>> => ret[i] # orig[i]
               /\ \A i \in 1..Len(ret) :
                     \A span \in DetectedSpans(tree, language) :
                         ~ContainsSpan(ret[i], span)

C7_Witness ==
    \E p \in PipeProcs :
        /\ reqs[p].pc = "done"
        /\ reqs[p].policy.pii_redaction_enabled
        /\ reqs[p].pii.detected
        /\ reqs[p].response.body.tree =
              JDict(<<Item("text", JStr(<<Plain, REDACTION_LABELS(EMAIL_ADDRESS)>>))>>)

\* two trees of the same shape: same node types, same keys in the same order,
\* same lengths, equal non-string scalars
RECURSIVE SameShape(_, _)
SameShape(a, b) ==
    IF IsStr(a) THEN IsStr(b)
    ELSE IF IsDict(a)
    THEN /\ IsDict(b)
         /\ Len(b.dict) = Len(a.dict)
         /\ \A i \in 1..Len(a.dict) :
               b.dict[i].k = a.dict[i].k /\ SameShape(a.dict[i].v, b.dict[i].v)
    ELSE IF IsList(a)
    THEN /\ IsList(b)
         /\ Len(b.list) = Len(a.list)
         /\ \A i \in 1..Len(a.list) : SameShape(a.list[i], b.list[i])
    ELSE DOMAIN a = DOMAIN b /\ a = b

\* C8: the tree _redact_json returns has the shape of its argument.
C8_ShapePreserved ==
    outcome # None => SameShape(payload, outcome[1].data)

C8_Witness ==
    /\ outcome # None
    /\ IsDict(payload)
    /\ Len(payload.dict) = 2
    /\ IsList(payload.dict[2].v)
    /\ outcome[1].data # payload

\* (detected, count, set of kinds) of a pii_info
Agg(info) ==
    [detected |-> info.detected, count |-> info.count, kinds |-> SeqRange(info.types)]

RECURSIVE SumCounts(_, _)
SumCounts(infos, k) ==
    IF k > Len(infos) THEN 0 ELSE infos[k].count + SumCounts(infos, k + 1)

\* the pii_info of each string leaf redacted on its own
LeafInfos(tree, language) ==
    LET texts == LeafTexts(tree)
    IN [i \in 1..Len(texts) |-> RedactJson(JStr(texts[i]), language).info]

\* C9: the aggregate of a payload is the merge over its string leaves: the OR
\* of their detected flags, the sum of their counts, the union of their kinds.
C9_AggregateIsMergeOfLeaves ==
    outcome # None =>
        LET infos == LeafInfos(payload, lang)
        IN  /\ outcome[1].info.detected = (\E i \in 1..Len(infos) : infos[i].detected)
            /\ outcome[1].info.count = SumCounts(infos, 1)
            /\ SeqRange(outcome[1].info.types) =
                  UNION {SeqRange(infos[i].types) : i \in 1..Len(infos)}

C9_Witness ==
    /\ outcome # None
    /\ payload = JDict(<<Item("a", JDict(<<Item("b", JStr(<<RawPerson, RawEmail, RawEmail>>))>>)),
                         Item("b", JStr(<<Plain, RawEmail>>))>>)
    /\ outcome[1].info.count = 4

\* the children of a container
Children(d) ==
    IF IsList(d) THEN d.list
    ELSE IF IsDict(d) THEN [i \in 1..Len(d.dict) |-> d.dict[i].v]
    ELSE <<>>

\* a container with its children (and keys) rearranged by the permutation f
Permuted(d, f) ==
    IF IsList(d) THEN JList([i \in 1..Len(d.list) |-> d.list[f[i]]])
    ELSE IF IsDict(d) THEN JDict([i \in 1..Len(d.dict) |-> d.dict[f[i]]])
    ELSE d

\* C10: on (detected, count, set of kinds) the merge is associative and
\* commutative over the outcomes of the children of a payload; permuting the
\* children, or regrouping all leaves into one flat sequence, leaves the
\* aggregate unchanged.
C10_MergeOrderIndependent ==
    outcome # None =>
        LET kids == Children(payload)
            infos == [i \in 1..Len(kids) |-> RedactJson(kids[i], lang).info]
            n == Len(kids)
            leaves == LeafTexts(payload)
        IN  /\ \A i \in 1..n, j \in 1..n :
                  Agg(MergePiiInfo(infos[i], infos[j])) = Agg(MergePiiInfo(infos[j], infos[i]))
            /\ \A i \in 1..n, j \in 1..n, k \in 1..n :
                  Agg(MergePiiInfo(MergePiiInfo(infos[i], infos[j]), infos[k]))
                  = Agg(MergePiiInfo(infos[i], MergePiiInfo(infos[j], infos[k])))
            /\ \A f \in Permutations(1..n) :
                  Agg(RedactJson(Permuted(payload, f), lang).info) = Agg(outcome[1].info)
            /\ Agg(RedactJson(JList([i \in 1..Len(leaves) |-> JStr(leaves[i])]), lang).info)
               = Agg(outcome[1].info)

C10_Witness ==
    /\ outcome # None
    /\ IsList(payload)
    /\ Len(payload.list) = 3
    /\ lang = ITALIAN
    /\ Agg(outcome[1].info).kinds = {EMAIL_ADDRESS, PERSON, IT_FISCAL_CODE}
    /\ payload.list[1] # payload.list[3]

\* C11: a request rejected by the quota check has emitted an audit record with
\* violation rate_limit_exceeded and status code 429, and its response is a 429
\* whose retry_after_seconds field and Retry-After header both carry the retry
\* delay of the rate limiter's decision.
C11_RejectionCarriesRetryDelay ==
    \A p \in PipeProcs :
        LET r == reqs[p]
        IN  (r.pc = "done" /\ r.branch = "rejected")
            => /\ r.rate_result # None
               /\ r.rate_result[1].retry_after_seconds # None
               /\ r.audits = 1
               /\ r.entry # None
               /\ r.entry[1].violation = Some(RATE_LIMIT_EXCEEDED)
               /\ r.entry[1].status_code = 429
               /\ r.response.status_code = 429
               /\ DictGet(r.response.body.tree, "retry_after_seconds", JNull)
                     = JNum(r.rate_result[1].retry_after_seconds[1])
               /\ r.response.retry_after = r.rate_result[1].retry_after_seconds

C11_Witness ==
    \E p \in PipeProcs :
        /\ reqs[p].pc = "done" /\ reqs[p].branch = "rejected"
        /\ reqs[p].entry # None
        /\ reqs[p].entry[1].violation = Some(RATE_LIMIT_EXCEEDED)
        /\ reqs[p].response.retry_after = Some(1)
        /\ reqs[p].rate_result[1].retry_after_seconds = Some(1)

\* C12: every rejected check_and_record returns remaining = 0 and a
\* retry_after_seconds between 1 and the window of its policy, whatever the age
\* of the oldest surviving entry, also when that entry was recorded at the
\* instant of the rejected call.
C12_RetryDelayWithinWindow ==
    \A p \in Procs :
        (calls[p].op = "check" /\ calls[p].pc = "returned" /\ ~calls[p].result.allowed)
        => /\ calls[p].result.remaining = 0
           /\ calls[p].result.retry_after_seconds # None
           /\ calls[p].result.retry_after_seconds[1] >= 1
           /\ calls[p].result.retry_after_seconds[1]
                 <= calls[p].policy.rate_limit[1].window_seconds

\* C13: redaction enabled and a downstream body that is not parseable (content
\* type not JSON, invalid JSON, undecodable or empty bytes): the response
\* returned has the body and the status code of the downstream response, and
\* the audit record emitted has pii_detected = false, no kinds and pii_count = 0.
C13_UnparseablePassesThrough ==
    \A p \in PipeProcs :
        LET r == reqs[p]
        IN  (/\ r.pc \in {"log", "done"}
             /\ r.branch = "forwarded"
             /\ r.policy.pii_redaction_enabled
             /\ (~r.downstream.is_json \/ ~JsonLoads(r.downstream.body).ok))
            => /\ r.response.body = r.downstream.body
               /\ r.response.status_code = r.downstream.status_code
               /\ r.pii = EmptyPiiInfo
               /\ r.pc = "done"
                  => /\ r.entry # None
                     /\ r.entry[1].pii_detected = FALSE
                     /\ r.entry[1].pii_types_found = <<>>
                     /\ r.entry[1].pii_count = 0
                     /\ r.entry[1].status_code = r.downstream.status_code

C13_Witness ==
    \E p \in PipeProcs :
        /\ reqs[p].pc = "done"
        /\ reqs[p].policy.pii_redaction_enabled
        /\ reqs[p].downstream.is_json
        /\ reqs[p].downstream.body.enc = "binary"
        /\ reqs[p].response.body.enc = "binary"
        /\ reqs[p].entry # None
        /\ reqs[p].entry[1].pii_detected = FALSE

\* C14: a failure of audit emission never prevents the response: a request
\* whose audit_logger.log call was made ends with its response returned, the
\* 429 on the rejected branch and the downstream response on the forwarded one.
C14_AuditFailureDoesNotBlock ==
    \A p \in PipeProcs :
        LET r == reqs[p]
        IN  (r.audits >= 1 /\ r.pc \in {"done", "failed"})
            => /\ r.pc = "done"
               /\ r.error = "-"
               /\ r.branch = "rejected" => r.response.status_code = 429
               /\ r.branch = "forwarded"
                  => r.response.status_code = r.downstream.status_code

\* C15: _map_role is total over the caller-supplied role values: for every
\* string in any letter case and for an absent role it returns a known role
\* without failing; exactly the spellings of "admin" give ADMIN and every
\* other value gives JUNIOR_INTERN.
C15_MapRoleTotal ==
    \A p \in PipeProcs :
        LET r == reqs[p]
        IN  (r.pc \notin {"idle", "bypass"} /\ ~IsExcluded(r.path))
            => /\ r.error # "AttributeError"
               /\ r.user_role \in UserRole
               /\ r.user_role = ADMIN
                  <=> r.user_role_str \in {Some("admin"), Some("ADMIN"), Some("Admin")}
               /\ r.user_role = JUNIOR_INTERN
                  <=> r.user_role_str \notin {Some("admin"), Some("ADMIN"), Some("Admin")}

\* C16: when the registry holds no policy for the resolved role of a request,
\* the pipeline goes on with the most restrictive known policy: the request
\* does not fail with PolicyNotFoundError and reaches the quota check.
C16_MissingPolicyRecovered ==
    \A p \in PipeProcs :
        LET r == reqs[p]
        IN  (/\ r.pc \notin {"idle", "bypass"}
             /\ ~IsExcluded(r.path)
             /\ r.user_role \in UserRole
             /\ r.user_role \notin DOMAIN registry)
            => /\ r.error # "PolicyNotFoundError"
               /\ r.policy \in {registry[role] : role \in DOMAIN registry}

\* C17: get_policy is a pure lookup: the step in which a request looks its role
\* up yields the loaded policy of that role, or fails with PolicyNotFoundError
\* (no default policy) when the role has none, and leaves the registry as it
\* was in both cases.
C17_LookupStep ==
    \A p \in PipeProcs :
        (/\ reqs[p].pc = "idle"
         /\ reqs'[p].pc \notin {"idle", "bypass"}
         /\ reqs'[p].user_role \in UserRole)
        => /\ registry' = registry
           /\ IF reqs'[p].user_role \in DOMAIN registry
              THEN /\ reqs'[p].policy = registry[reqs'[p].user_role]
                   /\ reqs'[p].error = "-"
              ELSE /\ reqs'[p].pc = "failed"
                   /\ reqs'[p].error = "PolicyNotFoundError"
                   /\ reqs'[p].policy = NullPolicy

C17_GetPolicyPureLookup == [][C17_LookupStep]_vars

C17_Witness ==
    \E p \in PipeProcs :
        /\ reqs[p].pc = "failed"
        /\ reqs[p].error = "PolicyNotFoundError"
        /\ reqs[p].user_role = JUNIOR_INTERN
        /\ loader.reloads = 1
        /\ DOMAIN registry = {ADMIN}

\* C18: a reload whose source is missing or malformed fails with
\* ConfigurationError and leaves the registry exactly as it was before the
\* reload.
C18_FailedReloadStep ==
    (/\ loader'.reloads = loader.reloads + 1
     /\ loader'.error # "-")
    => /\ loader'.error = "ConfigurationError"
       /\ registry' = registry

C18_FailedReloadKeepsRegistry == [][C18_FailedReloadStep]_vars

\* C19: reload is an atomic swap of the role-to-policy mapping: no lookup
\* observes a partially loaded registry (the registry a lookup reads is always
\* the result of the last load that ran to completion), and a request in
\* flight keeps the policy it resolved for its quota check and its redaction.
C19_LookupSeesCompleteRegistry ==
    \A p \in PipeProcs :
        (/\ reqs[p].pc = "idle"
         /\ reqs'[p].pc \notin {"idle", "bypass"}
         /\ reqs'[p].user_role \in UserRole)
        => registry = loader.committed

C19_InFlightKeepsPolicy ==
    \A p \in PipeProcs :
        (/\ reqs[p].pc \notin {"idle", "bypass", "failed"}
         /\ reqs'[p].pc # "idle")
        => /\ reqs'[p].policy = reqs[p].policy
           /\ (reqs[p].pc = "rate_limit" /\ calls[p].pc # "idle"
               => calls[p].policy = reqs[p].policy)

C19_ReloadAtomicSwap ==
    [][C19_LookupSeesCompleteRegistry /\ C19_InFlightKeepsPolicy]_vars

C19_InFlightOnly == [][C19_InFlightKeepsPolicy]_vars

\* C20: get_remaining never inserts an entry and never consumes quota: a step
\* of a peek leaves every entry that is inside the window, now or at any later
\* instant, in place, adds none and records no admission, so the count a later
\* check_and_record takes is the one it would have taken without the peek.
C20_PeekStep ==
    \A p \in Procs :
        (/\ calls[p].op = "peek"
         /\ calls[p].pc \in {"peek_rem", "peek_card"}
         /\ calls'[p] # calls[p])
        => /\ admits' = admits
           /\ \A u \in Users :
                /\ store'[u] \subseteq store[u]
                /\ \A t \in now..MaxTime :
                     ZRemRangeByScore(store'[u], t - WindowTicks(calls[p].policy))
                       = ZRemRangeByScore(store[u], t - WindowTicks(calls[p].policy))

C20_PeekConsumesNothing == [][C20_PeekStep]_vars

C20_Witness ==
    \E p \in Procs :
        /\ calls[p].op = "peek"
        /\ calls[p].pc = "returned"
        /\ has_rate_limit(calls[p].policy)
        /\ calls[p].count >= 1
        /\ calls[p].result.remaining < LimitOf(calls[p].policy)
        /\ Cardinality(store[calls[p].user]) = calls[p].count

\* C21: every RateLimitResult has remaining = -1 exactly when limit = -1
\* exactly when the policy has no rate limit; for a policy with limit L the
\* result has limit = L and 0 <= remaining <= L, at most L - 1 when
\* check_and_record admitted and 0 when it rejected.
C21_ResultAccounting ==
    \A p \in Procs :
        (calls[p].pc = "returned" /\ calls[p].op \in {"check", "peek"})
        => LET r == calls[p].result
               policy == calls[p].policy
           IN  /\ (r.remaining = -1) <=> (r.limit = -1)
               /\ (r.limit = -1) <=> ~has_rate_limit(policy)
               /\ has_rate_limit(policy)
                  => /\ r.limit = LimitOf(policy)
                     /\ 0 <= r.remaining
                     /\ r.remaining <= LimitOf(policy)
                     /\ (calls[p].op = "check" /\ r.allowed
                         => r.remaining <= LimitOf(policy) - 1)
                     /\ (calls[p].op = "check" /\ ~r.allowed
                         => r.remaining = 0)

C21_Witness ==
    \E p \in Procs :
        /\ calls[p].pc = "returned"
        /\ calls[p].op = "check"
        /\ has_rate_limit(calls[p].policy)
        /\ calls[p].result.allowed
        /\ calls[p].result.remaining = 0
        /\ calls[p].result.limit = Limit
        /\ Cardinality(store[calls[p].user]) = Limit

\* C22: the audit record of a forwarded request carries the facts of the
\* response returned to the caller: its status code is the status code of that
\* response and its response size is the byte length of that response's body,
\* for JSON and non-JSON responses alike.
C22_AuditCarriesResponseFacts ==
    \A p \in PipeProcs :
        (/\ reqs[p].pc = "done"
         /\ reqs[p].branch = "forwarded"
         /\ reqs[p].entry # None)
        => /\ reqs[p].entry[1].status_code = reqs[p].response.status_code
           /\ reqs[p].entry[1].response_size = BodyLen(reqs[p].response.body)

\* C23: when the policy of the role disables redaction, the redactor is never
\* invoked, the body returned is the body the endpoint sent, and the audit
\* record is emitted with pii_detected = false, no kinds and pii_count = 0.
C23_DisabledRedactionPassesThrough ==
    \A p \in PipeProcs :
        LET r == reqs[p]
        IN  (r.branch = "forwarded" /\ ~r.policy.pii_redaction_enabled)
            => /\ r.redactor_calls = 0
               /\ r.pc \in {"log", "done"}
                  => /\ r.response.body = r.downstream.body
                     /\ r.response.status_code = r.downstream.status_code
                     /\ r.pii = EmptyPiiInfo
               /\ r.pc = "done"
                  => /\ r.audits = 1
                     /\ r.entry # None
                     /\ r.entry[1].pii_detected = FALSE
                     /\ r.entry[1].pii_types_found = <<>>
                     /\ r.entry[1].pii_count = 0

C23_Witness ==
    \E p \in PipeProcs :
        /\ reqs[p].pc = "done"
        /\ reqs[p].branch = "forwarded"
        /\ ~reqs[p].policy.pii_redaction_enabled
        /\ reqs[p].downstream.is_json
        /\ reqs[p].downstream.body =
              Body("compact", JDict(<<Item("text", JStr(<<Plain, RawEmail>>))>>))
        /\ reqs[p].response.body = reqs[p].downstream.body
        /\ reqs[p].entry # None

\* the nodes of a tree: the tree itself and the nodes of its children
RECURSIVE Nodes(_)
Nodes(d) == {d} \cup UNION {Nodes(c) : c \in SeqRange(Children(d))}

\* detected == (count > 0); the kinds are empty exactly when count is 0 and
\* hold no kind twice
InfoConsistent(detected, types, count) ==
    /\ detected = (count > 0)
    /\ (types = <<>>) = (count = 0)
    /\ Cardinality(SeqRange(types)) = Len(types)

\* the request of the restricted role at the moment the endpoint answered
\* with the payload as a JSON body
AnsweredWith(tree) ==
    [IdleReq EXCEPT !.pc = "process", !.path = "/demo/chat", !.user_id = "u1",
                    !.user_role = JUNIOR_INTERN, !.method = "GET",
                    !.policy = LoadedPolicies[JUNIOR_INTERN],
                    !.branch = "forwarded", !.downstream_calls = 1,
                    !.downstream = Response(200, TRUE, Body("compact", tree), None)]

\* C24: the outcome of _redact_json at every node of the payload, and the audit
\* records the pipeline builds (for a response carrying the payload, and for a
\* rejection), satisfy detected == (count > 0), with the kinds empty exactly
\* when count is 0 and free of duplicates.
C24_DetectedIffCounted ==
    outcome # None =>
        /\ \A n \in Nodes(payload) :
              LET info == RedactJson(n, lang).info
              IN InfoConsistent(info.detected, info.types, info.count)
        /\ LET e == ForwardEntry(ProcessedResponse(AnsweredWith(payload)))
           IN InfoConsistent(e.pii_detected, e.pii_types_found, e.pii_count)
        /\ LET e == RejectEntry(AnsweredWith(payload))
           IN InfoConsistent(e.pii_detected, e.pii_types_found, e.pii_count)

C24_Witness ==
    /\ outcome # None
    /\ IsDict(payload)
    /\ \E n \in Nodes(payload) : IsStr(n) /\ RedactJson(n, lang).info.count = 3
    /\ \E n \in Nodes(payload) : IsStr(n) /\ RedactJson(n, lang).info.count = 0
    /\ outcome[1].info.count >= 3
    /\ ForwardEntry(ProcessedResponse(AnsweredWith(payload))).pii_detected

\* the payload is a mapping whose top-level language field is "it"
TopLevelItalian(d) ==
    /\ IsDict(d)
    /\ \E i \in 1..Len(d.dict) : d.dict[i].k = "language" /\ d.dict[i].v = JStr(<<"it">>)

SelectedLanguage(d) == IF TopLevelItalian(d) THEN ITALIAN ELSE ENGLISH

RECURSIVE SumFound(_, _, _)
SumFound(texts, language, k) ==
    IF k > Len(texts) THEN 0
    ELSE Len(Redact(texts[k], language, None).entities_found)
         + SumFound(texts, language, k + 1)

\* the response dispatch returns for the payload d holds, leaf by leaf, the
\* redaction of the original leaf in the selected language
LeavesRedactedIn(d, language) ==
    LET r == ProcessedResponse(AnsweredWith(d))
        orig == LeafTexts(d)
        ret == LeafTexts(r.response.body.tree)
    IN  /\ Len(ret) = Len(orig)
        /\ \A i \in 1..Len(orig) :
              ret[i] = Redact(orig[i], language, None).redacted_text
        /\ r.pii.count = SumFound(orig, language, 1)

\* the payload nested under a key of an Italian mapping, and inside a list
UnderItalian(d) == JDict(<<Item("language", JStr(<<"it">>)), Item("a", d)>>)
InList(d) == JList(<<d>>)

\* C25: if the payload is a mapping whose top-level language field is "it",
\* every string leaf of the whole payload is redacted in Italian, also inside
\* nested mappings with a language field of their own; in every other case
\* (field absent, another value, payload not a mapping) every leaf is redacted
\* in English.
C25_LanguageForWholePayload ==
    outcome # None =>
        /\ LeavesRedactedIn(payload, SelectedLanguage(payload))
        /\ LeavesRedactedIn(UnderItalian(payload), ITALIAN)
        /\ LeavesRedactedIn(InList(payload), ENGLISH)
        /\ lang = SelectedLanguage(payload)
           => outcome[1] = RedactJson(payload, ExtractLanguage(payload))

C25_Witness ==
    /\ outcome # None
    /\ IsDict(payload)
    /\ ~TopLevelItalian(payload)
    /\ \E n \in Nodes(payload) : n # payload /\ TopLevelItalian(n)
    /\ <<RawFiscal>> \in SeqRange(LeafTexts(payload))
    /\ ProcessedResponse(AnsweredWith(payload)).pii.count = 0
    /\ ProcessedResponse(AnsweredWith(UnderItalian(payload))).pii.count >= 1

\* C26: a rate-limit spec is accepted only with a positive request limit and
\* a positive window: a source entry with requests_per_hour = 0 or
\* window_seconds <= 0 is rejected with an error, so no policy of the registry
\* ever carries a limit of 0.
C26_LoadedLimitsPositive ==
    \A role \in DOMAIN registry :
        has_rate_limit(registry[role])
        => /\ LimitOf(registry[role]) > 0
           /\ registry[role].rate_limit[1].window_seconds > 0

\* the non-empty lists of kinds a caller may restrict redaction to
KindSubsets ==
    {SelectSeq(ENTITY_TYPE_MAPPING, LAMBDA kind : kind \in S) :
        S \in (SUBSET SeqRange(ENTITY_TYPE_MAPPING)) \ {{}}}

\* redact(text, language, kinds) filters what detection found: the spans of
\* other kinds stay as they are and are not counted, the spans of the listed
\* kinds are replaced by the label of their kind
FilteredRedaction(text, language, kinds) ==
    LET res == Redact(text, language, Some(kinds))
        found == Detect(text, language)
        wanted == SelectSeq(found, LAMBDA e : e.entity_type \in SeqRange(kinds))
    IN  /\ res.entities_found = wanted
        /\ res.entities_redacted = Len(wanted)
        /\ Len(res.redacted_text) = Len(text)
        /\ \A i \in 1..Len(text) :
              IF \E k \in 1..Len(found) : found[k].end = i
              THEN LET e == found[CHOOSE k \in 1..Len(found) : found[k].end = i]
                   IN IF e.entity_type \in SeqRange(kinds)
                      THEN res.redacted_text[i] = REDACTION_LABELS(e.entity_type)
                      ELSE res.redacted_text[i] = text[i]
              ELSE res.redacted_text[i] = text[i]

\* C27: redact called with a subset of kinds detects over all supported kinds
\* and then filters: spans of kinds outside the subset are left unchanged in
\* the redacted text and are not counted, every span of a kind in the subset
\* is replaced by the fixed label of its kind.
C27_SubsetLeavesOthersUnchanged ==
    outcome # None =>
        \A i \in 1..Len(LeafTexts(payload)) :
            \A kinds \in KindSubsets :
                FilteredRedaction(LeafTexts(payload)[i], lang, kinds)

\* the same, for the texts in which no span lies outside the subset or none
\* lies inside it
C27_SubsetWithoutMixedSpans ==
    outcome # None =>
        \A i \in 1..Len(LeafTexts(payload)) :
            \A kinds \in KindSubsets :
                LET found == Detect(LeafTexts(payload)[i], lang)
                    inside == \E k \in 1..Len(found) : found[k].entity_type \in SeqRange(kinds)
                    outside == \E k \in 1..Len(found) : found[k].entity_type \notin SeqRange(kinds)
                IN  ~(inside /\ outside)
                    => FilteredRedaction(LeafTexts(payload)[i], lang, kinds)

\* the subject of the operation process p performs a step of
SubjectOfStep(p) == IF calls[p].pc = "idle" THEN calls'[p].user ELSE calls[p].user

\* C29: rate-limit state is scoped per subject: a step of check_and_record,
\* get_remaining or reset for a subject neither adds nor removes an entry of
\* another subject, leaves the other subject's expiry and admissions alone,
\* and the count it reads is the count of its own subject's entries, whatever
\* the other callers are doing.
C29_SubjectStep ==
    \A p \in Procs :
        calls'[p] # calls[p]
        => /\ \A other \in Users \ {SubjectOfStep(p)} :
                /\ store'[other] = store[other]
                /\ ttl'[other] = ttl[other]
                /\ admits'[other] = admits[other]
           /\ calls[p].pc \in {"pipe", "peek_rem"}
              => store'[calls[p].user] =
                    ZRemRangeByScore(store[calls[p].user],
                                     calls[p].now_ts - WindowTicks(calls[p].policy))
           /\ calls[p].pc = "pipe"
              => calls'[p].count = Cardinality(store'[calls[p].user])
           /\ calls[p].pc = "peek_card"
              => calls'[p].count = Cardinality(store[calls[p].user])

C29_SubjectsIsolated == [][C29_SubjectStep]_vars

C29_Witness ==
    \E p \in Procs, q \in Procs :
        /\ p # q
        /\ calls[p].op = "check" /\ calls[p].pc = "expire"
        /\ calls[q].op = "check" /\ calls[q].pc = "returned" /\ calls[q].result.allowed
        /\ calls[p].user # calls[q].user
        /\ calls[p].now_ts = calls[q].now_ts
        /\ Cardinality(store[calls[p].user]) = Limit
        /\ calls[q].count = 0
        /\ calls[q].result.remaining = Limit - 1

\* the stages a request may move to from each stage of dispatch
StageSuccessors(pc) ==
    CASE pc = "idle" -> {"bypass", "rate_limit", "read_body", "call_next", "failed"}
      [] pc = "bypass" -> {"done", "failed"}
      [] pc = "rate_limit" -> {"reject_log", "read_body", "call_next"}
      [] pc = "read_body" -> {"call_next"}
      [] pc = "reject_log" -> {"done", "failed"}
      [] pc = "call_next" -> {"process", "failed"}
      [] pc = "process" -> {"log"}
      [] pc = "log" -> {"done", "failed"}
      [] OTHER -> {"idle"}

\* C30: a request of the pipeline goes through policy resolution, the quota
\* check, then either the rejection or the forwarding (never both), and when
\* forwarded through the downstream call, the response processing, the audit
\* emission and the return, in that order: the endpoint is called only after
\* the quota check admitted the request, and the audit record is emitted only
\* once the status code of the request is known.
C30_StageStep ==
    \A p \in PipeProcs :
        LET r == reqs[p]
            s == reqs'[p]
        IN  /\ s.pc # r.pc => s.pc \in StageSuccessors(r.pc)
            /\ (r.pc = "idle" /\ s.pc \in {"rate_limit", "read_body", "call_next"})
               => /\ s.policy = registry[s.user_role]
                  /\ (s.pc = "rate_limit") = has_rate_limit(s.policy)
            /\ (s.pc # "idle" /\ ~IsExcluded(s.path))
               => /\ (s.downstream_calls > 0
                      => /\ s.branch = "forwarded"
                         /\ has_rate_limit(s.policy)
                            => s.rate_result # None /\ s.rate_result[1].allowed)
                  /\ (s.branch = "rejected"
                      => /\ s.downstream_calls = 0
                         /\ s.rate_result # None /\ ~s.rate_result[1].allowed)
                  /\ (s.audits > r.audits /\ s.branch = "forwarded"
                      => /\ r.pc = "log"
                         /\ r.downstream_calls = 1
                         /\ r.response.status_code = r.downstream.status_code)
                  /\ (s.audits > r.audits /\ s.branch = "rejected"
                      => r.pc = "reject_log")
                  /\ (s.entry # None
                      => s.entry[1].status_code =
                            IF s.branch = "rejected" THEN 429
                            ELSE s.downstream.status_code)

C30_StagesInOrder == [][C30_StageStep]_vars

C30_Witness ==
    \E p \in PipeProcs :
        /\ reqs[p].pc = "done"
        /\ reqs[p].branch = "forwarded"
        /\ has_rate_limit(reqs[p].policy)
        /\ reqs[p].rate_result # None
        /\ reqs[p].rate_result[1].allowed
        /\ reqs[p].downstream_calls = 1
        /\ reqs[p].audits = 1
        /\ reqs[p].entry # None
        /\ reqs[p].entry[1].status_code = 404

\* what an admitted call returns and leaves behind, apart from the number of
\* entries: an entry timestamped t is recorded, the key expires w + 60 seconds
\* after the expire command, and the result is allowed, limit L,
\* remaining L - c - 1, reset_at t + w
AdmittedOutcome(p) ==
    LET c == calls[p]
        u == c.user
    IN  /\ c.pc = "zadd" /\ calls'[p].pc = "expire"
           => /\ c.count < LimitOf(c.policy)
              /\ c.now_ts \in store'[u]
              /\ store[u] \subseteq store'[u]
        /\ c.pc = "expire" /\ calls'[p].pc = "returned"
           => /\ ttl'[u] = Some(now + (c.policy.rate_limit[1].window_seconds + 60)
                                        * TicksPerSecond)
              /\ calls'[p].result.allowed
              /\ calls'[p].result.limit = LimitOf(c.policy)
              /\ calls'[p].result.remaining = LimitOf(c.policy) - c.count - 1
              /\ calls'[p].result.reset_at = c.now_ts + WindowTicks(c.policy)
              /\ calls'[p].result.retry_after_seconds = None

\* C31: an admitted check_and_record at time t that counted c surviving
\* entries (c < L) inserts exactly one entry timestamped t, sets the expiry of
\* the key to w + 60 seconds and returns allowed, limit L, remaining L - c - 1
\* and reset_at t + w.
C31_AdmittedStep ==
    \A p \in Procs :
        /\ AdmittedOutcome(p)
        /\ calls[p].pc = "zadd" /\ calls'[p].pc = "expire"
           => Cardinality(store'[calls[p].user]) = Cardinality(store[calls[p].user]) + 1

C31_AdmissionInsertsOneEntry == [][C31_AdmittedStep]_vars

C31_AdmittedOutcomeOnly == [][\A p \in Procs : AdmittedOutcome(p)]_vars

\* C32: a check at time t with window w discards exactly the entries
\* timestamped before t - w: an entry timestamped exactly t - w survives the
\* discard and is counted (the window is the closed interval [t - w, t]).
C32_DiscardStep ==
    \A p \in Procs :
        (calls[p].pc \in {"pipe", "peek_rem"} /\ calls'[p].pc # calls[p].pc)
        => LET u == calls[p].user
               window_start == calls[p].now_ts - WindowTicks(calls[p].policy)
           IN  /\ store'[u] = {s \in store[u] : s >= window_start}
               /\ calls[p].pc = "pipe"
                  => calls'[p].count = Cardinality({s \in store[u] : s >= window_start})

C32_BoundaryEntrySurvives == [][C32_DiscardStep]_vars

\* C33: the retry delay of a rejection names a moment at which the window
\* admits a slot: when a check_and_record of a subject at time t was rejected
\* with retry_after_seconds = r and no call of that subject was admitted with
\* a timestamp from t on, the check_and_record of the subject at t + r is
\* admitted.
C33_RetryMomentAdmits ==
    \A p \in Procs, q \in Procs :
        LET c == calls[p]
            d == calls[q]
        IN  (/\ c.op = "check" /\ c.pc = "returned"
             /\ ~c.result.allowed
             /\ Decided(d)
             /\ d.user = c.user
             /\ d.policy = c.policy
             /\ d.now_ts = c.now_ts + c.result.retry_after_seconds[1] * TicksPerSecond
             \* no admission since the rejection: none of a call inside the
             \* rejected call's window, none of a later call
             /\ AdmittedInWindow(c.user, c.now_ts, WindowTicks(c.policy)) = c.prior
             /\ \A n \in Times : n > c.now_ts => admits[c.user][n] = 0
             /\ \A n \in store[c.user] : n <= c.now_ts)
            => Admitted(d)

\* C34: the expiry of window_seconds + 60 seconds never deletes an entry that
\* is still inside a window: when the clock advances (and Redis deletes the
\* keys whose deadline is reached), the entries of a subject that a call made
\* at the new time would count, and those that a call already in flight will
\* count, are the same before and after, so every decision equals the one of
\* a limiter whose keys never expire.
C34_ClockStep ==
    now' # now =>
        \A u \in Users :
            /\ ZRemRangeByScore(store'[u], now' - WindowTicks(ExpiryPolicy))
                   = ZRemRangeByScore(store[u], now' - WindowTicks(ExpiryPolicy))
            /\ \A p \in Procs :
                   (calls[p].pc = "pipe" /\ calls[p].user = u)
                   => ZRemRangeByScore(store'[u],
                                       calls[p].now_ts - WindowTicks(calls[p].policy))
                          = ZRemRangeByScore(store[u],
                                       calls[p].now_ts - WindowTicks(calls[p].policy))

C34_ExpiryKeepsWindow == [][C34_ClockStep]_vars

\* witness: the entry of the first call is gone by the key's expiry while the
\* second call, made after the idle period, has not yet read the key
C34_Witness ==
    \E p \in Procs :
        /\ ncalls = 2
        /\ calls[p].op = "check" /\ calls[p].pc = "pipe"
        /\ calls[p].now_ts >= ExpiryTicks - 1
        /\ \A q \in Procs \ {p} : calls[q].pc = "idle"
        /\ store["u1"] = {}
        /\ ttl["u1"] = None

\* C35: every admitted check_and_record adds one entry to the subject's
\* entries, also when an earlier admitted call of the subject carries the same
\* timestamp: the member written by zadd is not among the members already
\* recorded, and the number of entries grows by one.
C35_InsertStep ==
    \A p \in Procs :
        (calls[p].pc = "zadd" /\ calls'[p].pc = "expire")
        => /\ calls[p].now_ts \notin store[calls[p].user]
           /\ Cardinality(store'[calls[p].user]) = Cardinality(store[calls[p].user]) + 1

C35_AdmissionNeverAbsorbed == [][C35_InsertStep]_vars

\* C36: a rejected check_and_record records nothing: its pipeline only
\* discards the entries that left the window, and from there to its return
\* it inserts no entry, leaves the key's expiry as it was and takes no slot,
\* so the entries that decide the next admission are those of the admitted
\* calls alone.
C36_RejectedStep ==
    \A p \in Procs :
        LET c == calls[p]
            u == c.user
        IN  /\ (c.op = "check" /\ c.pc = "pipe" /\ calls'[p].pc = "zrange")
               => /\ store'[u] = ZRemRangeByScore(store[u], c.now_ts - WindowTicks(c.policy))
                  /\ ttl'[u] = ttl[u]
                  /\ admits'[u] = admits[u]
            /\ (c.pc = "zrange" /\ calls'[p].pc = "returned")
               => /\ store' = store
                  /\ ttl' = ttl
                  /\ admits' = admits
                  /\ ~calls'[p].result.allowed

C36_RejectionRecordsNothing == [][C36_RejectedStep]_vars

\* witness: a rejected call has returned, the subject's key holds the entries
\* of the admitted calls and its expiry is the one the last admission set
C36_Witness ==
    \E p \in Procs :
        /\ calls[p].op = "check" /\ calls[p].pc = "returned"
        /\ ~calls[p].result.allowed
        /\ Cardinality(store[calls[p].user]) = LimitOf(calls[p].policy)
        /\ ttl[calls[p].user] # None
        /\ ttl[calls[p].user][1] < now + (WindowSeconds + KeyGraceSeconds) * TicksPerSecond

\* C37: an emitted audit record carries violation = rate_limit_exceeded
\* exactly when the quota check rejected the request; a record of a forwarded
\* request has neither violation nor violation_details, and the record of a
\* rejected request has status 429 and rate_limit_remaining = 0.
C37_ViolationIffRejected ==
    \A p \in PipeProcs :
        LET r == reqs[p]
            rejected == r.rate_result # None /\ ~r.rate_result[1].allowed
        IN  r.entry # None
            => /\ (r.entry[1].violation = Some(RATE_LIMIT_EXCEEDED)) <=> rejected
               /\ ~rejected
                  => /\ r.branch = "forwarded"
                     /\ r.entry[1].violation = None
                     /\ r.entry[1].violation_details = None
               /\ rejected
                  => /\ r.branch = "rejected"
                     /\ r.entry[1].status_code = 429
                     /\ r.entry[1].rate_limit_remaining = Some(0)

\* witness: a request rejected by the quota check has been audited
C37_Witness ==
    \E p \in PipeProcs :
        /\ reqs[p].pc = "done"
        /\ reqs[p].rate_result # None /\ ~reqs[p].rate_result[1].allowed
        /\ reqs[p].entry # None
        /\ reqs[p].entry[1].violation = Some(RATE_LIMIT_EXCEEDED)
        /\ reqs[p].entry[1].violation_details # None
        /\ reqs[p].entry[1].rate_limit_remaining = Some(0)

\* C38: a request to an excluded path or under the excluded prefix bypasses
\* governance: each of its steps leaves the rate-limit entries and expiries of
\* every subject and the rate limiter's calls as they were, no quota check is
\* made for it, the redactor is not called, no audit record is emitted, and
\* when it is done the endpoint was called once and the response returned is
\* the endpoint's response; when the endpoint raises, its exception leaves
\* dispatch as it is, after that one call and without a response.
C38_BypassStep ==
    \A p \in PipeProcs :
        (reqs'[p] # reqs[p] /\ IsExcluded(reqs'[p].path))
        => /\ store' = store /\ ttl' = ttl /\ calls' = calls
           /\ reqs'[p].pc \in {"bypass", "done", "failed"}
           /\ reqs'[p].rate_result = None
           /\ reqs'[p].rate_limit_remaining = None
           /\ reqs'[p].redactor_calls = 0
           /\ reqs'[p].audits = 0 /\ reqs'[p].entry = None
           /\ reqs'[p].pc = "bypass" => reqs'[p].downstream_calls = 0
           /\ reqs'[p].pc = "done"
              => /\ reqs'[p].downstream_calls = 1
                 /\ reqs'[p].response = reqs'[p].downstream
           /\ reqs'[p].pc = "failed"
              => /\ reqs'[p].downstream_calls = 1
                 /\ reqs'[p].error = "DownstreamError"
                 /\ reqs'[p].response = reqs[p].response

C38_ExcludedPathsBypass == [][C38_BypassStep]_vars

\* witness: with entries of the subject recorded, a request under the excluded
\* prefix has returned the endpoint's JSON response as it was
C38_Witness ==
    \E p \in PipeProcs :
        /\ reqs[p].pc = "done"
        /\ StartsWithExcludedPrefix(reqs[p].path)
        /\ reqs[p].response.body.enc = "compact"
        /\ DetectedSpans(reqs[p].response.body.tree, ENGLISH) # {}
        /\ store[reqs[p].user_id] # {}

\* C39: reset(subject) leaves the subject without entries and without an
\* expiry, whatever was recorded before, and leaves the entries and expiries
\* of every other subject as they were; a check_and_record of a subject
\* without entries under a limit L >= 1 counts 0, is admitted and returns
\* remaining = L - 1.
C39_ResetStep ==
    \A p \in Procs :
        LET c == calls[p]
        IN  /\ (c.pc = "idle" /\ calls'[p].op = "reset")
               => /\ store'[calls'[p].user] = {}
                  /\ ttl'[calls'[p].user] = None
                  /\ \A v \in Users \ {calls'[p].user} :
                         store'[v] = store[v] /\ ttl'[v] = ttl[v]
            /\ (/\ c.op = "check" /\ c.pc = "pipe" /\ calls'[p].pc # "pipe"
                /\ store[c.user] = {}
                /\ LimitOf(c.policy) >= 1)
               => calls'[p].pc = "zadd" /\ calls'[p].count = 0
            /\ (c.pc = "expire" /\ c.count = 0 /\ calls'[p].pc = "returned")
               => /\ calls'[p].result.allowed
                  /\ calls'[p].result.remaining = LimitOf(c.policy) - 1

C39_ResetClearsSubject == [][C39_ResetStep]_vars

\* witness: a reset of a subject has returned after an admitted call of that
\* subject had inserted its entry: the subject has no entries left, and the
\* other subject still holds its own
C39_Witness ==
    \E p \in Procs, q \in Procs :
        /\ calls[q].op = "reset" /\ calls[q].pc = "returned"
        /\ calls[p].op = "check" /\ calls[p].pc = "expire"
        /\ calls[p].user = calls[q].user
        /\ store[calls[q].user] = {}
        /\ \A v \in Users \ {calls[q].user} : store[v] # {} /\ ttl[v] # None

\* C40: when the redaction runs on a JSON response (redaction enabled, the
\* body parses) and no entity is detected in any string leaf, the body
\* returned is the downstream body itself, not a re-serialisation of it; the
\* body returned is the serialised redacted tree exactly when an entity was
\* detected.
C40_UntouchedUnlessDetected ==
    \A p \in PipeProcs :
        LET r == reqs[p]
            tree == r.downstream.body.tree
            found == DetectedSpans(tree, ExtractLanguage(tree)) # {}
        IN  (/\ r.pc \in {"log", "done"}
             /\ r.branch = "forwarded"
             /\ r.policy.pii_redaction_enabled
             /\ r.downstream.is_json
             /\ r.downstream.body.enc # "empty"
             /\ JsonLoads(r.downstream.body).ok)
            => /\ r.pii.detected <=> found
               /\ ~found => /\ r.response.body = r.downstream.body
                            /\ r.response_body = r.downstream.body
               /\ (r.response.body # r.downstream.body) <=> found
               /\ found => r.response.body = JsonDumps(RedactJson(tree, ExtractLanguage(tree)).data)

\* witness: the redactor was called on the string leaves of a parsed body,
\* found nothing, and the body returned is the compact body the endpoint sent
C40_Witness ==
    \E p \in PipeProcs :
        /\ reqs[p].pc = "done"
        /\ reqs[p].policy.pii_redaction_enabled
        /\ reqs[p].redactor_calls >= 1
        /\ ~reqs[p].pii.detected
        /\ reqs[p].downstream.body.enc = "compact"
        /\ reqs[p].response.body = reqs[p].downstream.body

====
